---- MODULE Spec2Model ----
(***************************************************************************)
(* A model of the IBelive stock-data pipeline (hansdcr/Stock):             *)
(*   - MySQLManager, the singleton database helper (mysql_manager.py);     *)
(*   - the tables the managers upsert into and the save handlers;          *)
(*   - the batched save loops;                                             *)
(*   - the preprocessing / placeholder logic of the price-bar fetchers;    *)
(*   - RSIStrategy.calculate_rsi.                                          *)
(* Each part has its own specification over the shared variables; the      *)
(* variables a specification does not use keep their initial values.       *)
(***************************************************************************)
EXTENDS Integers, Sequences, FiniteSets, TLC

VARIABLES
    \* ---- MySQLManager (class attributes and the instance's attributes)
    instance,     \* cls._instance: 0 is None, otherwise the id of the instance
    made,         \* number of MySQLManager objects ever allocated by __new__
    clsConfig,    \* cls._config
    selfConfig,   \* the instance attribute self._config ("None": not set)
    connection,   \* self._connection: 0 is None, otherwise a connection id
    \* ---- the database server as seen from this process
    dbUp,         \* the server accepts new connections
    openConns,    \* ids of the connections that are open (is_connected())
    connSeq,      \* number of connections ever opened by this process
    \* ---- observation of the last MySQLManager call
    last,
    firstConfig,  \* the config of the first construction given a non-None config
    \* ---- the database tables and the frames saved into them
    tbl,          \* the table the run works on
    table,        \* its rows: stored row -> number of rows holding these values
    df,           \* the DataFrame the manager holds (a sequence of fetched rows)
    hist,         \* per stored key, the value of the last committed batch with it
    saved,        \* observation of the last save call
    \* ---- the price-bar fetchers
    fetcher,      \* the manager the run works with
    rows,         \* the rows of the frame the last fetch returned
    fetched,      \* observation of the last fetch call
    \* ---- RSIStrategy.calculate_rsi
    prices,       \* the price series
    period,       \* the RSI period
    rsi,          \* the series calculate_rsi returned (<<>>: not called yet)
    \* ---- the strategies
    call          \* the last strategy call: its arguments and what it returned

mgrVars == <<instance, made, clsConfig, selfConfig, connection, dbUp,
             openConns, connSeq, last, firstConfig>>

storeVars == <<tbl, table, df, hist, saved>>

fetchVars == <<fetcher, rows, fetched>>

rsiVars == <<prices, period, rsi>>

strategyVars == <<call>>

\* The variables the MySQLManager methods do not touch.
nonMgrVars == <<storeVars, fetchVars, rsiVars, strategyVars>>

vars == <<mgrVars, storeVars, fetchVars, rsiVars, strategyVars>>

None == "None"
True == "True"
False == "False"
Raised == "raised"          \* an exception left the method

\* The configuration objects a script may pass to a manager.
Configs == {"cfgA", "cfgB"}

\* Bound on the number of connections one run opens.
MaxConns == 3

(***************************************************************************)
(* MySQLManager.  The methods are operators on a record w of the manager's *)
(* attributes and the server state; each returns the new record and the    *)
(* value returned to the caller (Raised when an exception propagates).     *)
(***************************************************************************)
World == [instance |-> instance, made |-> made, clsConfig |-> clsConfig,
          selfConfig |-> selfConfig, connection |-> connection,
          dbUp |-> dbUp, openConns |-> openConns, connSeq |-> connSeq]

\* Attribute lookup self._config / self._mysql_config: the instance attribute
\* when __init__ has set it, the class attribute otherwise.
config_in_effect(w) ==
    IF w.selfConfig # None THEN w.selfConfig ELSE w.clsConfig

\* self._connection.is_connected()
is_connected(w) == w.connection # 0 /\ w.connection \in w.openConns

\* __new__ with the singleton check removed: every construction allocates.
new_always(w, config) ==
    [w EXCEPT !.instance = w.made + 1, !.made = w.made + 1,
              !.clsConfig = IF config # None THEN config ELSE @]

\* MySQLManager.__new__
new(w, config) ==
    IF w.instance = 0
    THEN [w EXCEPT !.instance = w.made + 1, !.made = w.made + 1,
                   !.clsConfig = IF config # None THEN config ELSE @]
    ELSE w

\* __init__ without the "self._config is None" test: the last config wins.
init_overwrite(w, config) ==
    IF config # None THEN [w EXCEPT !.selfConfig = config] ELSE w

\* MySQLManager.__init__
init(w, config) ==
    IF config # None /\ config_in_effect(w) = None
    THEN [w EXCEPT !.selfConfig = config]
    ELSE w

\* connect() without the "is None or not is_connected()" test: it always
\* opens a connection and drops the reference to the old one.
connect_always(w) ==
    IF config_in_effect(w) = None
    THEN [w |-> w, ret |-> Raised, opened |-> FALSE]
    ELSE IF w.dbUp
         THEN [w |-> [w EXCEPT !.connection = w.connSeq + 1,
                               !.openConns = @ \cup {w.connSeq + 1},
                               !.connSeq = @ + 1],
               ret |-> True, opened |-> TRUE]
         ELSE [w |-> w, ret |-> False, opened |-> FALSE]

\* MySQLManager.connect.  mysql.connector.connect raises Error when the
\* server cannot be reached; reading self._mysql_config when no config was
\* ever given raises AttributeError, which "except Error" does not catch.
connect(w) ==
    IF w.connection = 0 \/ ~is_connected(w)
    THEN IF config_in_effect(w) = None
         THEN [w |-> w, ret |-> Raised, opened |-> FALSE]
         ELSE IF w.dbUp
              THEN [w |-> [w EXCEPT !.connection = w.connSeq + 1,
                                    !.openConns = @ \cup {w.connSeq + 1},
                                    !.connSeq = @ + 1],
                    ret |-> True, opened |-> TRUE]
              ELSE [w |-> w, ret |-> False, opened |-> FALSE]
    ELSE [w |-> w, ret |-> True, opened |-> FALSE]

\* MySQLManager.disconnect
disconnect(w) ==
    IF w.connection # 0 /\ is_connected(w)
    THEN [w EXCEPT !.openConns = @ \ {w.connection}, !.connection = 0]
    ELSE w

\* The first lines of execute_query, execute_many and
\* create_table_if_not_exists:
\*     if not self._connection or not self._connection.is_connected():
\*         self.connect()
\* called: self.connect() was called; opened: that call opened a connection.
ensure_connected(w) ==
    IF w.connection = 0 \/ ~is_connected(w)
    THEN connect(w) @@ [called |-> TRUE]
    ELSE [w |-> w, ret |-> True, opened |-> FALSE, called |-> FALSE]

\* The rest of the three statement methods, c being what ensure_connected
\* left: self._connection.cursor() raises AttributeError on None (not caught
\* by "except Error") and an Error on a closed connection; the statement
\* itself raises an Error when sqlError.  ran is the connection the statement
\* ran on (0: it did not run).
statement_body(c, sqlError, okRet, failRet) ==
    IF c.ret = Raised \/ c.w.connection = 0
    THEN [c EXCEPT !.ret = Raised] @@ [ran |-> 0]
    ELSE IF ~is_connected(c.w) \/ sqlError
    THEN [c EXCEPT !.ret = failRet] @@ [ran |-> 0]
    ELSE [c EXCEPT !.ret = okRet] @@ [ran |-> c.w.connection]

run_statement(w, sqlError, okRet, failRet) ==
    statement_body(ensure_connected(w), sqlError, okRet, failRet)

\* MySQLManager.execute_query: the fetched rows, or None on an Error.
execute_query(w, sqlError) == run_statement(w, sqlError, "rows", None)

\* MySQLManager.execute_many: True after commit, False after an Error.
execute_many(w, sqlError) == run_statement(w, sqlError, True, False)

\* MySQLManager.create_table_if_not_exists
create_table_if_not_exists(w, sqlError) ==
    run_statement(w, sqlError, True, False)

(***************************************************************************)
(* Specification Spec: one thread using MySQLManager.                      *)
(***************************************************************************)
\* last: the method called last (op), the config it was given (arg), what it
\* returned (ret; obj for a construction), whether the manager was connected
\* when it was called, whether it called connect() and whether that opened a
\* connection, the connection its statement ran on, and whether the call
\* before it was a disconnect().
NoCall == [op |-> "none", arg |-> None, ret |-> None, obj |-> 0,
           wasConnected |-> FALSE, called |-> FALSE, opened |-> FALSE,
           ran |-> 0, afterDisconnect |-> FALSE]

SetWorld(w) ==
    /\ instance' = w.instance
    /\ made' = w.made
    /\ clsConfig' = w.clsConfig
    /\ selfConfig' = w.selfConfig
    /\ connection' = w.connection
    /\ dbUp' = w.dbUp
    /\ openConns' = w.openConns
    /\ connSeq' = w.connSeq

MgrInit ==
    /\ instance = 0
    /\ made = 0
    /\ clsConfig = None
    /\ selfConfig = None
    /\ connection = 0
    /\ dbUp \in BOOLEAN
    /\ openConns = {}
    /\ connSeq = 0
    /\ last = NoCall
    /\ firstConfig = None

\* m = MySQLManager(config): __new__ then __init__ on the returned object.
Construct ==
    \E config \in Configs \cup {None} :
        \E w \in {init(new(World, config), config)} :
        /\ SetWorld(w)
        /\ last' = [NoCall EXCEPT !.op = "construct", !.arg = config,
                                  !.obj = w.instance]
        /\ firstConfig' = IF firstConfig = None THEN config ELSE firstConfig
        /\ UNCHANGED nonMgrVars

Connect ==
    /\ instance # 0
    /\ \E r \in {connect(World)} :
       /\ r.w.connSeq <= MaxConns
       /\ SetWorld(r.w)
       /\ last' = [NoCall EXCEPT !.op = "connect", !.ret = r.ret,
                                  !.wasConnected = is_connected(World),
                                  !.called = TRUE, !.opened = r.opened]
    /\ UNCHANGED firstConfig
    /\ UNCHANGED nonMgrVars

Disconnect ==
    /\ instance # 0
    /\ SetWorld(disconnect(World))
    /\ last' = [NoCall EXCEPT !.op = "disconnect"]
    /\ UNCHANGED firstConfig
    /\ UNCHANGED nonMgrVars

Statement(op, r) ==
    /\ r.w.connSeq <= MaxConns
    /\ SetWorld(r.w)
    /\ last' = [NoCall EXCEPT !.op = op, !.ret = r.ret,
                               !.wasConnected = is_connected(World),
                               !.called = r.called, !.opened = r.opened,
                               !.ran = r.ran,
                               !.afterDisconnect = (last.op = "disconnect")]
    /\ UNCHANGED firstConfig
    /\ UNCHANGED nonMgrVars

ExecuteQuery ==
    /\ instance # 0
    /\ \E sqlError \in BOOLEAN :
           Statement("execute_query", execute_query(World, sqlError))

ExecuteMany ==
    /\ instance # 0
    /\ \E sqlError \in BOOLEAN :
           Statement("execute_many", execute_many(World, sqlError))

CreateTable ==
    /\ instance # 0
    /\ \E sqlError \in BOOLEAN :
           Statement("create_table_if_not_exists",
                     create_table_if_not_exists(World, sqlError))

\* The environment: the server goes away or comes back, or drops the
\* connection this process holds.
ServerDown ==
    /\ dbUp
    /\ dbUp' = FALSE
    /\ UNCHANGED <<instance, made, clsConfig, selfConfig, connection,
                   openConns, connSeq, last, firstConfig>>
    /\ UNCHANGED nonMgrVars

ServerUp ==
    /\ ~dbUp
    /\ dbUp' = TRUE
    /\ UNCHANGED <<instance, made, clsConfig, selfConfig, connection,
                   openConns, connSeq, last, firstConfig>>
    /\ UNCHANGED nonMgrVars

ServerDrop ==
    /\ openConns # {}
    /\ \E c \in openConns : openConns' = openConns \ {c}
    /\ UNCHANGED <<instance, made, clsConfig, selfConfig, connection,
                   dbUp, connSeq, last, firstConfig>>
    /\ UNCHANGED nonMgrVars

Next ==
    \/ Construct
    \/ Connect
    \/ Disconnect
    \/ ExecuteQuery
    \/ ExecuteMany
    \/ CreateTable
    \/ ServerDown
    \/ ServerUp
    \/ ServerDrop

\* No save has been observed.
NoSave == [op |-> "none", ret |-> None, log |-> <<>>, batches |-> 0,
           entered |-> FALSE, full |-> FALSE, stamp |-> None,
           again |-> FALSE, effect |-> "none"]

\* The run saves nothing: the table variables are not in use.
StoreIdle ==
    /\ tbl = "none"
    /\ table = <<>>
    /\ df = <<>>
    /\ hist = <<>>
    /\ saved = NoSave

\* No fetch has been observed.
NoFetch == [op |-> "none", ret |-> None, asked |-> <<>>]

\* The run fetches nothing: the fetcher variables are not in use.
FetchIdle ==
    /\ fetcher = "none"
    /\ rows = <<>>
    /\ fetched = NoFetch

\* The run computes no RSI: the RSI variables are not in use.
RsiIdle ==
    /\ prices = <<>>
    /\ period = 0
    /\ rsi = <<>>

\* No strategy call has been observed.
NoStrategyCall == [op |-> "none"]

\* The run calls no strategy.
StrategyIdle == call = NoStrategyCall

Init == MgrInit /\ StoreIdle /\ FetchIdle /\ RsiIdle /\ StrategyIdle

Spec == Init /\ [][Next]_vars

(***************************************************************************)
(* Claims about MySQLManager, checked under Spec.                          *)
(***************************************************************************)
StatementOps == {"execute_query", "execute_many", "create_table_if_not_exists"}

\* C3: connect, execute_query, execute_many and create_table_if_not_exists
\* never let an exception reach the caller; every failure, a failed
\* connection attempt that leaves no connection object included, shows only
\* in the returned value (False, or None for execute_query).  Stated for a
\* manager that was given a config, the case every script of the repository
\* is in.
C3_NeverPropagates ==
    (last.op \in StatementOps \cup {"connect"}
         /\ config_in_effect(World) # None) =>
        /\ last.ret # Raised
        /\ last.ret \in (IF last.op = "execute_query"
                         THEN {"rows", None} ELSE {True, False})

C9_Singleton ==
    /\ made <= 1
    /\ last.op = "construct" => (last.obj = instance /\ instance = 1)
    /\ config_in_effect(World) = firstConfig

\* A construction given cfgB after cfgA was already in effect.
C9_Witness ==
    /\ last.op = "construct"
    /\ last.arg = "cfgB"
    /\ firstConfig = "cfgA"
    /\ config_in_effect(World) = "cfgA"

(***************************************************************************)
(* The tables and the rows saved into them.  A fetched row is a record     *)
(* [ts_code, trade_date, val]: val stands for all the other columns.  A    *)
(* stored row is [ts_code, date, val], date being the value of the table's *)
(* date column.                                                            *)
(***************************************************************************)
PriceTables == {"daily_data", "weekly_data", "monthly_data",
                "index_daily_data", "etf_index_daily"}
DescTables == {"listed_companies", "index_basic"}
\* The tables filled by a loop over batches.
LoopTables == {"monthly_data", "daily_basic", "index_basic",
               "rsi_days_data", "etf_index_daily"}
Tables == PriceTables \cup DescTables \cup LoopTables

Codes == {"000001.SZ", "000300.SH"}
Vals == {"v1", "v2"}

\* Two calendar days in the forms the code converts between: the
\* datetime.date object, strftime('%Y%m%d'), strftime('%Y-%m-%d') and the
\* value of a DATETIME column.
DateForms ==
    { [date |-> "date(2025,1,2)", Ymd |-> "20250102", iso |-> "2025-01-02",
       datetime |-> "2025-01-02 00:00:00"],
      [date |-> "date(2025,1,3)", Ymd |-> "20250103", iso |-> "2025-01-03",
       datetime |-> "2025-01-03 00:00:00"] }
Days == {f.date : f \in DateForms}
NoDate == "-"

\* x.strftime('%Y%m%d')
strftime_Ymd(d) == (CHOOSE f \in DateForms : f.date = d).Ymd
\* x.strftime('%Y-%m-%d')
strftime_iso(d) == (CHOOSE f \in DateForms : f.date = d).iso
\* pd.to_datetime(x): the Timestamp at midnight of the day
to_datetime(d) == (CHOOSE f \in DateForms : f.date = d).datetime
\* What a DATETIME column stores for a 'YYYY-MM-DD' string or a Timestamp.
mysql_datetime(x) ==
    (CHOOSE f \in DateForms : x \in {f.iso, f.datetime}).datetime

\* The asof_date arguments a caller may pass ('YYYYMMDD' strings).
AsofDates == {f.Ymd : f \in DateForms}

\* The value of the table's date column for a fetched row: trade_date as each
\* save handler converts it, asof_date for listed_companies (the argument, or
\* today's date when it is not given); index_basic has no date column.
date_column(t, row, asof_date, now) ==
    CASE t = "daily_data" -> strftime_Ymd(row.trade_date)
      [] t \in {"monthly_data", "daily_basic"} ->
             mysql_datetime(strftime_iso(row.trade_date))
      [] t = "listed_companies" ->
             IF asof_date # None THEN asof_date ELSE strftime_Ymd(now)
      [] t = "index_basic" -> NoDate
      [] OTHER -> mysql_datetime(to_datetime(row.trade_date))

StoredDates(t) ==
    CASE t \in {"daily_data", "listed_companies"} -> {f.Ymd : f \in DateForms}
      [] t = "index_basic" -> {NoDate}
      [] OTHER -> {f.datetime : f \in DateForms}

StoredRows(t) == [ts_code : Codes, date : StoredDates(t), val : Vals]

\* The tuples handed to executemany for a frame.
data_tuples(t, frame, asof_date, now) ==
    [i \in DOMAIN frame |->
        [ts_code |-> frame[i].ts_code,
         date |-> date_column(t, frame[i], asof_date, now),
         val |-> frame[i].val]]

\* A unique key that also holds a data column: rows that differ in it no
\* longer collide.
unique_key_wide(t, r) == <<r.ts_code, r.date, r.val>>

\* The columns of the table's UNIQUE KEY.
unique_key(t, r) ==
    IF t = "index_basic" THEN <<r.ts_code>> ELSE <<r.ts_code, r.date>>

\* INSERT ... ON DUPLICATE KEY UPDATE of one tuple: a row holding the same
\* unique key takes the new values, otherwise the tuple becomes a new row.
insert_one(t, tab, r) ==
    LET dup == {x \in DOMAIN tab :
                    tab[x] > 0 /\ unique_key(t, x) = unique_key(t, r)}
    IN
    IF dup = {}
    THEN [tab EXCEPT ![r] = @ + 1]
    ELSE LET old == CHOOSE x \in dup : TRUE
             rest == [tab EXCEPT ![old] = @ - 1]
         IN [rest EXCEPT ![[old EXCEPT !.val = r.val]] = @ + 1]

RECURSIVE insert_always(_, _, _)
RECURSIVE insert_ignore(_, _, _)
RECURSIVE upsert(_, _, _)

\* A plain INSERT into a table without the unique key: every tuple is a new
\* row.
insert_always(t, tab, tuples) ==
    IF tuples = <<>> THEN tab
    ELSE insert_always(t, [tab EXCEPT ![Head(tuples)] = @ + 1], Tail(tuples))

\* INSERT IGNORE: a tuple whose key is already stored is dropped.
insert_ignore(t, tab, tuples) ==
    IF tuples = <<>> THEN tab
    ELSE LET r == Head(tuples)
             dup == {x \in DOMAIN tab :
                         tab[x] > 0 /\ unique_key(t, x) = unique_key(t, r)}
         IN insert_ignore(t, IF dup = {} THEN [tab EXCEPT ![r] = @ + 1]
                             ELSE tab, Tail(tuples))

\* cursor.executemany(insert_query, data) with the tables' insert query.
upsert(t, tab, tuples) ==
    IF tuples = <<>> THEN tab
    ELSE upsert(t, insert_one(t, tab, Head(tuples)), Tail(tuples))

(***************************************************************************)
(* The save handlers.  Each takes the manager/server record w, the table   *)
(* tab and the tuples to save, and returns the new w and table, the value  *)
(* returned (Raised: an exception left the handler), the batches submitted *)
(* in order (log), the tuples committed in order (committed) and whether   *)
(* the batch loop was entered.                                             *)
(***************************************************************************)
\* Bounds on the rows of a frame and on the batch_size argument.
MaxRows == 2
MaxBatchSize == 2

\* What execute_many leaves in the table, r being its result: the tuples
\* after commit, nothing after the rollback that follows an Error.
committed_table(r, t, tab, tuples) ==
    [w |-> r.w, ret |-> r.ret,
     table |-> IF r.ret = True THEN upsert(t, tab, tuples) ELSE tab]

\* execute_many on the table's insert query.
execute_many_on(w, t, tab, tuples, sqlError) ==
    committed_table(execute_many(w, sqlError), t, tab, tuples)

\* "except Exception" in save_dataframe_to_table turns whatever execute_many
\* raises into False.
except_Exception(r) == [r EXCEPT !.ret = IF @ = Raised THEN False ELSE @]

\* MySQLManager.save_dataframe_to_table
save_dataframe_to_table(w, t, tab, tuples, sqlError) ==
    IF tuples = <<>>
    THEN [w |-> w, ret |-> False, table |-> tab]
    ELSE except_Exception(execute_many_on(w, t, tab, tuples, sqlError))

\* The handlers after create_table_if_not_exists returned c.
after_create(c, t, tab, tuples, sqlError) ==
    IF c.ret # True
    THEN [w |-> c.w, ret |-> c.ret, table |-> tab]
    ELSE save_dataframe_to_table(c.w, t, tab, tuples, sqlError)

\* _save_period_data_to_mysql, _save_weekly_data_to_mysql,
\* _save_index_daily_data_to_mysql and _save_index_daily_to_mysql:
\* create_table_if_not_exists, outside any try, then save_dataframe_to_table.
save_frame(w, t, tab, tuples, createErr, sqlError) ==
    IF tuples = <<>>
    THEN [w |-> w, ret |-> False, table |-> tab]
    ELSE after_create(create_table_if_not_exists(w, createErr),
                      t, tab, tuples, sqlError)

\* StockDataManager.save_listed_companies_to_mysql: a private connection,
\* opened and closed inside the call; every Error is caught and rolled back.
save_listed_companies_to_mysql(w, t, tab, tuples, sqlError) ==
    [w |-> w, ret |-> IF w.dbUp /\ ~sqlError THEN True ELSE False,
     table |-> IF w.dbUp /\ ~sqlError THEN upsert(t, tab, tuples) ELSE tab]

Min(a, b) == IF a <= b THEN a ELSE b

\* The slice data[i:i + batch_size - 1], one row short of a batch.
Batch_short(tuples, batch_size, n) ==
    SubSeq(tuples, (n - 1) * batch_size + 1,
           Min(n * batch_size, Len(tuples)) - 1)

\* data[i:i + batch_size] for the n-th pass of range(0, total, batch_size)
Batch(tuples, batch_size, n) ==
    SubSeq(tuples, (n - 1) * batch_size + 1, Min(n * batch_size, Len(tuples)))

\* The number of passes of range(0, total, batch_size).
NumBatches(tuples, batch_size) ==
    (Len(tuples) + batch_size - 1) \div batch_size

\* The loops whose body is wrapped in try/except Exception.
InnerTry == {"monthly_data", "daily_basic", "index_basic"}

\* The loops that count a batch as saved whatever execute_many returned.
CountsUnchecked == {"monthly_data", "daily_basic"}

\* What one pass of a loop does with its batch.
submit(t, w, tab, batch, createErr, sqlError) ==
    IF t = "etf_index_daily"
    THEN save_frame(w, t, tab, batch, createErr, sqlError)
    ELSE execute_many_on(w, t, tab, batch, sqlError)

\* The state of a loop after the pass that submitted batch and got r.
after_pass(t, s, batch, r) ==
    [w |-> r.w, table |-> r.table, n |-> s.n + 1,
     ret |-> IF r.ret = Raised /\ t \notin InnerTry THEN Raised ELSE s.ret,
     log |-> Append(s.log, s.n),
     committed |-> IF r.ret = True THEN s.committed \o batch ELSE s.committed,
     success_count |->
         IF (t \in CountsUnchecked /\ r.ret # Raised) \/ r.ret = True
         THEN s.success_count + Len(batch) ELSE s.success_count]

\* The loop over the batches, from pass s.n on.  An exception the body does
\* not catch ends the loop (s.ret = Raised).
RECURSIVE save_batches(_, _, _, _, _)
save_batches(t, s, tuples, batch_size, in) ==
    IF s.n > NumBatches(tuples, batch_size) \/ s.ret = Raised
    THEN s
    ELSE save_batches(t,
             after_pass(t, s, Batch(tuples, batch_size, s.n),
                        submit(t, s.w, s.table,
                               Batch(tuples, batch_size, s.n),
                               in.createErr, s.n \in in.failing)),
             tuples, batch_size, in)

\* A handler's state before its first pass.
start(w, tab) ==
    [w |-> w, table |-> tab, n |-> 1, ret |-> None, log |-> <<>>,
     committed |-> <<>>, success_count |-> 0]

\* The statement a batched handler runs before its loop: CREATE TABLE through
\* execute_query (monthly, daily_basic) or create_table_if_not_exists
\* (index_basic, RSI); the ETF loop creates the table inside each pass.
before_loop(t, w, createErr) ==
    CASE t \in CountsUnchecked -> execute_query(w, createErr)
      [] t = "etf_index_daily" ->
             [w |-> w, ret |-> True, called |-> FALSE, opened |-> FALSE,
              ran |-> 0]
      [] OTHER -> create_table_if_not_exists(w, createErr)

\* Whether the loop is reached after before_loop returned c: an exception
\* goes to the outer "except Exception"; only save_results looks at the
\* returned value.
enters_loop(t, c) ==
    IF t = "rsi_days_data" THEN c.ret = True ELSE c.ret # Raised

\* The variant in which every handler is content with one saved row.
returned_any(t, s, tuples) ==
    CASE t = "etf_index_daily" -> IF s.ret = Raised THEN Raised ELSE "df"
      [] OTHER -> IF s.ret # Raised /\ s.success_count > 0
                  THEN True ELSE False

\* The value a batched handler returns after its loop ended in s.
returned(t, s, tuples) ==
    CASE t = "etf_index_daily" -> IF s.ret = Raised THEN Raised ELSE "df"
      [] t = "rsi_days_data" ->
             IF s.ret # Raised /\ s.success_count = Len(tuples)
             THEN True ELSE False
      [] OTHER -> IF s.success_count > 0 THEN True ELSE False

\* What a handler hands back: s after its loop (or as it started), the
\* value it returns and whether the loop was entered.
outcome(s, ret, entered) ==
    [w |-> s.w, table |-> s.table, ret |-> ret, log |-> s.log,
     committed |-> s.committed, entered |-> entered,
     success_count |-> s.success_count]

\* A batched handler after its loop ended in s.
after_loop(t, s, tuples) == outcome(s, returned(t, s, tuples), TRUE)

\* A batched handler after before_loop returned c.
batched(t, c, tab, tuples, in) ==
    IF enters_loop(t, c)
    THEN after_loop(t, save_batches(t, start(c.w, tab), tuples,
                                    in.batch_size, in), tuples)
    ELSE outcome(start(c.w, tab), False, FALSE)

\* A handler that saves its frame in one piece, r being what the save
\* returned.
unbatched(r, tuples) ==
    outcome([start(r.w, r.table) EXCEPT
                 !.committed = IF r.ret = True THEN tuples ELSE <<>>],
            r.ret, FALSE)

\* The handler of table t on the tuples of a frame.  in: batch_size,
\* createErr (the CREATE TABLE statement fails) and failing (the passes
\* whose insert fails).
save(t, w, tab, tuples, in) ==
    IF t = "listed_companies"
    THEN unbatched(save_listed_companies_to_mysql(w, t, tab, tuples,
                                                  1 \in in.failing), tuples)
    ELSE IF tuples = <<>> THEN outcome(start(w, tab), False, FALSE)
    ELSE IF t \in LoopTables
    THEN batched(t, before_loop(t, w, in.createErr), tab, tuples, in)
    ELSE unbatched(save_frame(w, t, tab, tuples, in.createErr,
                              1 \in in.failing), tuples)

(***************************************************************************)
(* Specification SpecStore: one manager fetching frames and saving them    *)
(* into its table; the server may be unreachable at first.  (Once the      *)
(* manager holds an open connection the server going away changes nothing  *)
(* in what the statement methods do, so that step is left out.)            *)
(***************************************************************************)
\* The bars the data source has: 000001.SZ traded on both days, 000300.SH
\* on the first only.
Traded == {<<"000001.SZ", "date(2025,1,2)">>, <<"000001.SZ", "date(2025,1,3)">>,
           <<"000300.SH", "date(2025,1,2)">>}

\* The rows a fetch may return.
FetchedRows ==
    {r \in [ts_code : Codes, trade_date : Days, val : Vals] :
        <<r.ts_code, r.trade_date>> \in Traded}

\* The key (ts_code, date column) of a stored row, and the keys of a table.
KeyOf(r) == <<r.ts_code, r.date>>
StoredKeys(t) == Codes \X StoredDates(t)

\* The value a committed sequence of tuples leaves for key k: that of its
\* last tuple with the key, or what was recorded before.
last_value(h, k, tuples) ==
    LET idx == {i \in DOMAIN tuples : KeyOf(tuples[i]) = k} IN
    IF idx = {} THEN h[k]
    ELSE tuples[CHOOSE i \in idx : \A j \in idx : j <= i].val

\* The number of rows of tab among the stored rows S.
RECURSIVE Count(_, _)
Count(tab, S) ==
    IF S = {} THEN 0
    ELSE LET r == CHOOSE x \in S : TRUE IN tab[r] + Count(tab, S \ {r})

\* The number of rows with key k, and with code c.
RowCount(tab, k) == Count(tab, {r \in DOMAIN tab : KeyOf(r) = k})
CodeCount(tab, c) == Count(tab, {r \in DOMAIN tab : r.ts_code = c})

\* What a save did to the table: it added rows for keys that had none
\* ("inserted"), changed the values of stored rows ("updated"), both, or
\* nothing.
effect(before, after) ==
    LET inserted == Count(before, DOMAIN before) < Count(after, DOMAIN after)
        updated == \E r \in DOMAIN before : after[r] < before[r]
    IN CASE inserted /\ updated -> "both"
         [] inserted -> "inserted"
         [] updated -> "updated"
         [] OTHER -> "none"

\* A manager object was constructed with a config (its __init__ calls
\* MySQLManager(config)); nothing is connected.
ManagerMade ==
    /\ instance = 1
    /\ made = 1
    /\ clsConfig = "cfgA"
    /\ selfConfig = None
    /\ connection = 0
    /\ openConns = {}
    /\ connSeq = 0
    /\ last = NoCall
    /\ firstConfig = "cfgA"

\* The manager of one of the tables T; its table is empty.
StoreStart(T) ==
    /\ ManagerMade
    /\ dbUp \in BOOLEAN
    /\ FetchIdle
    /\ RsiIdle
    /\ StrategyIdle
    /\ tbl \in T
    /\ table = [r \in StoredRows(tbl) |-> 0]
    /\ df = <<>>
    /\ hist = [k \in StoredKeys(tbl) |-> None]
    /\ saved = NoSave

\* A fetch adds a bar to the frame, or starts a new frame when the frame is
\* full or already holds that bar: a fetched frame has one row per
\* (ts_code, trade_date).
Fetch ==
    /\ \E r \in FetchedRows :
           df' = IF /\ Len(df) < MaxRows
                    /\ \A i \in DOMAIN df :
                           <<df[i].ts_code, df[i].trade_date>>
                               # <<r.ts_code, r.trade_date>>
                 THEN Append(df, r) ELSE <<r>>
    /\ saved' = [NoSave EXCEPT !.op = "fetch"]
    /\ UNCHANGED <<mgrVars, tbl, table, hist, fetchVars, rsiVars, strategyVars>>

\* The manager saves its frame with the handler of its table.
Save ==
    \E batch_size \in (IF tbl \in LoopTables /\ df # <<>>
                       THEN 1..Min(MaxBatchSize, Len(df)) ELSE {1}) :
    \E createErr \in (IF tbl = "listed_companies" THEN {FALSE} ELSE BOOLEAN),
       failing \in SUBSET (1..(IF tbl \in LoopTables
                                THEN NumBatches(df, batch_size)
                                ELSE Min(1, Len(df)))),
       asof_date \in (IF tbl = "listed_companies" THEN AsofDates \cup {None}
                      ELSE {None}) :
    \E now \in (IF tbl = "listed_companies" /\ asof_date = None THEN Days
                ELSE {CHOOSE d \in Days : TRUE}) :
        LET in == [batch_size |-> batch_size, createErr |-> createErr,
                   failing |-> failing]
            stamp == IF tbl = "listed_companies"
                     THEN date_column(tbl, None, asof_date, now) ELSE None
        IN
        \E tuples \in {data_tuples(tbl, df, asof_date, now)} :
        \E r \in {save(tbl, World, table, tuples, in)} :
        \E full \in {df # <<>> /\ r.committed = tuples} :
        /\ SetWorld(r.w)
        /\ table' = r.table
        /\ hist' = [k \in DOMAIN hist |-> last_value(hist, k, r.committed)]
        /\ saved' = [op |-> "save", ret |-> r.ret, log |-> r.log,
                     batches |-> NumBatches(tuples, batch_size),
                     entered |-> r.entered, full |-> full, stamp |-> stamp,
                     again |-> saved.op = "save" /\ saved.full /\ full
                               /\ saved.stamp = stamp,
                     effect |-> effect(table, r.table),
                     success_count |-> r.success_count,
                     committed |-> Len(r.committed)]
        /\ UNCHANGED <<tbl, df, last, firstConfig, fetchVars, rsiVars, strategyVars>>

StoreNext ==
    \/ Fetch
    \/ Save
    \/ ServerUp

\* The price-bar managers.
StoreInit == StoreStart(PriceTables)

SpecStore == StoreInit /\ [][StoreNext]_vars

\* StockDataManager (listed_companies) and IndexBasicManager (index_basic).
DescInit == StoreStart(DescTables)

SpecDesc == DescInit /\ [][StoreNext]_vars

\* The managers that save in batches.
LoopInit == StoreStart(LoopTables)

SpecLoop == LoopInit /\ [][StoreNext]_vars

(***************************************************************************)
(* Claims about the tables, checked under SpecStore, SpecDesc and SpecLoop. *)
(***************************************************************************)
\* C1: a price-bar table holds at most one row per (ts_code, trade_date)
\* whatever was saved, and saving the same frame a second time leaves the
\* stored rows as they were.
C1_UpsertIdempotent ==
    tbl \in PriceTables =>
        /\ \A k \in StoredKeys(tbl) : RowCount(table, k) <= 1
        /\ saved.again => saved.effect = "none"

\* A frame of two rows was saved twice in a row, both times in full.
C1_Witness ==
    /\ tbl \in PriceTables
    /\ saved.op = "save"
    /\ saved.again
    /\ Len(df) = MaxRows
    /\ \E k \in StoredKeys(tbl) : RowCount(table, k) = 1

\* C2: in a price-bar table the row of a key holds the values of the most
\* recent committed batch that contained the key; a key no committed batch
\* contained has no row, and a key that was saved keeps a row for ever.
C2_LastSaveWins ==
    tbl \in PriceTables =>
        \A r \in DOMAIN table :
            table[r] = IF hist[KeyOf(r)] = r.val THEN 1 ELSE 0

\* A save of one row overwrote the stored values of its key and left the
\* rows of the other keys, all of them stored, alone.
C2_Witness ==
    /\ tbl \in PriceTables
    /\ saved.op = "save"
    /\ saved.effect = "updated"
    /\ Len(df) = 1
    /\ Cardinality({k \in StoredKeys(tbl) : hist[k] # None})
           = Cardinality(Traded)

\* C7, as the code has it: listed_companies holds at most one row per
\* (ts_code, asof_date) and index_basic at most one row per ts_code.
C7_DescriptorKeys ==
    /\ tbl = "listed_companies" =>
           \A k \in StoredKeys(tbl) : RowCount(table, k) <= 1
    /\ tbl = "index_basic" =>
           \A c \in Codes : CodeCount(table, c) <= 1

\* listed_companies holds a code under two asof dates.
C7_Witness ==
    /\ tbl = "listed_companies"
    /\ \E c \in Codes : CodeCount(table, c) > 1
    /\ \A k \in StoredKeys(tbl) : RowCount(table, k) <= 1

\* C7 as stated: listed_companies and index_basic each hold at most one row
\* per ts_code.
C7_OneRowPerCode ==
    tbl \in DescTables => \A c \in Codes : CodeCount(table, c) <= 1

\* C4: a batched save loop that is entered submits every batch exactly once,
\* in slice order: a failed batch is not retried and does not keep a later
\* batch from being submitted.
C4_EveryBatchOnce ==
    (tbl \in LoopTables /\ saved.op = "save" /\ saved.entered) =>
        saved.log = [n \in 1..saved.batches |-> n]

(***************************************************************************)
(* The price-bar fetchers.  A bar is a record [ts_code, trade_date, num,   *)
(* data_status]: num maps each numeric column to its cell.  A cell is      *)
(* written as the value it holds: "1.5" a finite float as Tushare sends    *)
(* it, "0.0" the float the cleaning puts in, "nan", "inf", "-inf", "abc"   *)
(* (a string that is no number) and "None".  The status labels of the      *)
(* source are the two-character Chinese literals for normal, suspended    *)
(* and error; they are written Normal, Suspended and Error here.           *)
(***************************************************************************)
Fetchers == {"daily", "weekly", "monthly", "index_daily", "etf_index_daily"}

NumericFields == {"open", "high", "low", "close", "pre_close", "change",
                  "pct_chg", "vol", "amount"}

GoodCell == "1.5"
Zero == "0.0"
DirtyCells == {"nan", "inf", "-inf", "abc"}
Finite(v) == v \in {GoodCell, Zero}

Absent == "absent"            \* the frame has no such column
Normal == "normal"
Suspended == "suspended"
Error == "error"

\* pd.to_numeric(x, errors='coerce')
to_numeric(v) == IF v \in {"abc", None} THEN "nan" ELSE v
\* x.fillna(0.0)
fillna(v) == IF v = "nan" THEN Zero ELSE v
\* x.replace([float('inf'), float('-inf')], 0.0)
replace_inf(v) == IF v \in {"inf", "-inf"} THEN Zero ELSE v

\* The three steps every preprocessing applies to a column it cleans.
clean(v) == replace_inf(fillna(to_numeric(v)))

\* pd.to_datetime(x, format='%Y%m%d') raises unless x has that format.
parses_Ymd(x) == \E f \in DateForms : f.Ymd = x
\* pd.to_datetime(x, format='%Y%m%d').date()
to_date(x) == (CHOOSE f \in DateForms : f.Ymd = x).date

\* The body of the preprocessing functions: the date column becomes a
\* datetime.date and the columns of fields are cleaned.
preprocess_fields(row, fields) ==
    [row EXCEPT !.trade_date = to_date(@),
                !.num = [f \in NumericFields |->
                            IF f \in fields THEN clean(row.num[f])
                            ELSE row.num[f]]]

preprocess_daily_data(row) ==
    preprocess_fields(row, {"open", "high", "low", "close", "vol", "amount"})

preprocess_weekly_data(row) ==
    preprocess_fields(row, {"open", "high", "low", "close", "vol", "amount",
                            "pre_close", "change", "pct_chg"})

preprocess_monthly_data(row) ==
    preprocess_fields(row, {"open", "high", "low", "close", "vol", "amount",
                            "pre_close", "change", "pct_chg"})

preprocess_index_daily_data(row) ==
    preprocess_fields(row, {"open", "high", "low", "close", "pre_close",
                            "change", "pct_chg", "vol", "amount"})

\* ETFIndexDailyManager._preprocess_index_daily
preprocess_index_daily(row) ==
    preprocess_fields(row, {"open", "high", "low", "close", "pre_close",
                            "change", "pct_chg", "vol", "amount"})

preprocess(f, row) ==
    CASE f = "daily" -> preprocess_daily_data(row)
      [] f = "weekly" -> preprocess_weekly_data(row)
      [] f = "monthly" -> preprocess_monthly_data(row)
      [] f = "index_daily" -> preprocess_index_daily_data(row)
      [] f = "etf_index_daily" -> preprocess_index_daily(row)

\* What a Tushare call answers: a frame of one bar ("rows"), an empty frame
\* or an exception.  In the bar the columns of dirty hold the cell v.
Bar(ts_code, trade_date, dirty, v) ==
    [ts_code |-> ts_code, trade_date |-> trade_date,
     num |-> [f \in NumericFields |-> IF f \in dirty THEN v ELSE GoodCell],
     data_status |-> Absent]

Answer(kind, ts_code, trade_date, dirty, v) ==
    [kind |-> kind, row |-> Bar(ts_code, trade_date, dirty, v)]

\* fetch_daily_data, fetch_weekly_data, fetch_monthly_data and
\* fetch_index_daily_data: the preprocessed frame, or None when the call
\* raised, answered nothing, or the preprocessing raised.
fetch_data(f, api) ==
    IF api.kind = "rows" /\ parses_Ymd(api.row.trade_date)
    THEN [ret |-> "df", rows |-> <<preprocess(f, api.row)>>]
    ELSE [ret |-> None, rows |-> <<>>]

\* The assignment of the label left out: the row keeps its default.
set_status_not(row, status) == row

\* row['data_status'] = status
set_status(row, status) == [row EXCEPT !.data_status = status]

create_empty_daily_data(ts_code, trade_date) ==
    [ts_code |-> ts_code, trade_date |-> to_date(trade_date),
     num |-> [f \in NumericFields |-> Zero], data_status |-> ""]

\* One pass of the loop of fetch_daily_data_period, daily_df being what
\* fetch_daily_data returned.  (_create_empty_daily_data raises only for a
\* date that does not parse, and then raises in the except clause as well:
\* see period_raises.)
day_row(daily_df, ts_code, trade_date) ==
    IF daily_df.ret # None
    THEN set_status(daily_df.rows[1], Normal)
    ELSE set_status(create_empty_daily_data(ts_code, trade_date), Suspended)

\* The exception leaves the loop of fetch_daily_data_period.
period_raises(trading_days, apis) ==
    \E i \in DOMAIN trading_days :
        /\ fetch_data("daily", apis[i]).ret = None
        /\ ~parses_Ymd(trading_days[i])

\* The variant without the filter: every day of the calendar.
open_days_all(cal_date, is_open) == cal_date

\* trade_cal[trade_cal['is_open'] == 1]['cal_date'].tolist()
RECURSIVE open_days(_, _)
open_days(cal_date, is_open) ==
    IF cal_date = <<>> THEN <<>>
    ELSE LET n == Len(cal_date)
             before == open_days(SubSeq(cal_date, 1, n - 1), is_open)
         IN IF is_open[n] = 1 THEN Append(before, cal_date[n]) ELSE before

\* fetch_daily_data_period(ts_code, start_date, end_date): calRaises says
\* that pro.trade_cal raised, trading_days are the open days of its answer
\* and apis[i] is the answer of pro.daily for the i-th of them.
fetch_daily_data_period(ts_code, calRaises, trading_days, apis) ==
    IF calRaises \/ trading_days = <<>> \/ period_raises(trading_days, apis)
    THEN [ret |-> "df", rows |-> <<>>, asked |-> <<>>]
    ELSE [ret |-> "df",
          rows |-> [i \in DOMAIN trading_days |->
                      day_row(fetch_data("daily", apis[i]), ts_code,
                              trading_days[i])],
          asked |-> [i \in DOMAIN trading_days |->
                       <<ts_code, trading_days[i]>>]]

\* pd.DataFrame([{**{k: None for k in DEFAULT_FIELDS}, 'ts_code': code,
\*                'trade_date': trade_date}])
placeholder(code, trade_date) ==
    [ts_code |-> code, trade_date |-> trade_date,
     num |-> [f \in NumericFields |-> None], data_status |-> Absent]

\* The try block of one pass of the loop of fetch_index_daily_by_trade_date
\* raises: the call did, or a date did not parse in the preprocessing.
try_raises(api, trade_date) ==
    \/ api.kind = "raises"
    \/ api.kind = "rows" /\ ~parses_Ymd(api.row.trade_date)
    \/ api.kind = "empty" /\ ~parses_Ymd(trade_date)

\* The except clause of that pass raises in turn.
except_raises(api, trade_date) ==
    try_raises(api, trade_date) /\ ~parses_Ymd(trade_date)

\* The row one pass appends.
code_row(api, code, trade_date) ==
    IF try_raises(api, trade_date)
    THEN set_status(preprocess_index_daily(placeholder(code, trade_date)),
                    Error)
    ELSE IF api.kind = "rows"
    THEN set_status(preprocess_index_daily(api.row), Normal)
    ELSE set_status(preprocess_index_daily(placeholder(code, trade_date)),
                    Suspended)

\* fetch_index_daily_by_trade_date(trade_date, index_codes): listed is what
\* get_all_index_codes answers and apis[i] the answer of pro.index_daily for
\* the i-th code.
index_codes_used(index_codes, listed) ==
    IF index_codes = <<>> THEN listed ELSE index_codes

fetch_index_daily_by_trade_date(trade_date, codes, apis) ==
    IF codes = <<>>
    THEN [ret |-> "df", rows |-> <<>>, asked |-> <<>>]
    ELSE IF \E i \in DOMAIN codes : except_raises(apis[i], trade_date)
    THEN [ret |-> Raised, rows |-> <<>>, asked |-> <<>>]
    ELSE [ret |-> "df",
          rows |-> [i \in DOMAIN codes |->
                      code_row(apis[i], codes[i], trade_date)],
          asked |-> [i \in DOMAIN codes |-> <<codes[i], trade_date>>]]

(***************************************************************************)
(* Specification SpecFetch: one fetcher answering fetch calls.             *)
(***************************************************************************)
\* The calendar pro.trade_cal answers for, in calendar order.
Calendar == <<"20250102", "20250103">>

\* A trade_date argument that is not in the YYYYMMDD format.
BadDate == "2025-01-02"

\* The lists of index codes a caller passes: no code twice.
CodeLists ==
    {s \in UNION {[1..n -> Codes] : n \in 0..Cardinality(Codes)} :
        \A i, j \in DOMAIN s : i # j => s[i] # s[j]}

\* What a call answers in the list fetchers: a clean bar, a bar whose
\* numeric columns are all dirty, nothing, or an exception.
Outcomes == {"bar", "dirty", "empty", "raises"}

AnswerOf(o, ts_code, trade_date, v) ==
    Answer(IF o \in {"bar", "dirty"} THEN "rows" ELSE o, ts_code, trade_date,
           IF o = "dirty" THEN NumericFields ELSE {}, v)

FetchInit ==
    /\ ManagerMade
    /\ dbUp = TRUE
    /\ StoreIdle
    /\ RsiIdle
    /\ StrategyIdle
    /\ fetcher \in Fetchers
    /\ rows = <<>>
    /\ fetched = NoFetch

\* fetch_daily_data and its likes in the weekly, monthly and index managers:
\* the bar has one dirty column.
FetchData ==
    /\ fetcher \in Fetchers \ {"etf_index_daily"}
    /\ \E ts_code \in Codes, i \in DOMAIN Calendar,
          kind \in {"rows", "empty", "raises"} :
       \E c \in (IF kind = "rows" THEN NumericFields ELSE {"open"}),
          v \in (IF kind = "rows" THEN DirtyCells \cup {GoodCell}
                 ELSE {GoodCell}) :
       \E r \in {fetch_data(fetcher,
                            Answer(kind, ts_code, Calendar[i], {c}, v))} :
           /\ rows' = r.rows
           /\ fetched' = [op |-> "fetch_data", ret |-> r.ret,
                          asked |-> [n \in DOMAIN r.rows |->
                                       <<ts_code, Calendar[i]>>]]
    /\ UNCHANGED <<mgrVars, storeVars, fetcher, rsiVars, strategyVars>>

FetchDailyDataPeriod ==
    /\ fetcher = "daily"
    /\ \E ts_code \in Codes, calRaises \in BOOLEAN,
          is_open \in [DOMAIN Calendar -> {0, 1}], v \in DirtyCells :
       \E trading_days \in {open_days(Calendar, is_open)} :
       \E os \in [DOMAIN trading_days -> Outcomes] :
       \E r \in {fetch_daily_data_period(ts_code, calRaises, trading_days,
                    [i \in DOMAIN trading_days |->
                        AnswerOf(os[i], ts_code, trading_days[i], v)])} :
           /\ rows' = r.rows
           /\ fetched' = [op |-> "fetch_daily_data_period", ret |-> r.ret,
                          asked |-> r.asked, calRaises |-> calRaises,
                          is_open |-> is_open, outcomes |-> os]
    /\ UNCHANGED <<mgrVars, storeVars, fetcher, rsiVars, strategyVars>>

\* A call with a date that is not YYYYMMDD is answered with nothing or with
\* an exception.
FetchIndexDailyByTradeDate ==
    /\ fetcher = "etf_index_daily"
    /\ \E index_codes \in CodeLists, v \in DirtyCells,
          trade_date \in {Calendar[i] : i \in DOMAIN Calendar} \cup {BadDate} :
       \E listed \in (IF index_codes = <<>> THEN CodeLists ELSE {<<>>}) :
       \E codes \in {index_codes_used(index_codes, listed)} :
       \E os \in [DOMAIN codes -> (IF trade_date = BadDate
                                   THEN {"empty", "raises"} ELSE Outcomes)] :
       \E r \in {fetch_index_daily_by_trade_date(trade_date, codes,
                    [i \in DOMAIN codes |->
                        AnswerOf(os[i], codes[i], trade_date, v)])} :
           /\ rows' = r.rows
           /\ fetched' = [op |-> "fetch_index_daily_by_trade_date",
                          ret |-> r.ret, asked |-> r.asked]
    /\ UNCHANGED <<mgrVars, storeVars, fetcher, rsiVars, strategyVars>>

FetchNext ==
    \/ FetchData
    \/ FetchDailyDataPeriod
    \/ FetchIndexDailyByTradeDate

SpecFetch == FetchInit /\ [][FetchNext]_vars

(***************************************************************************)
(* Claims about the fetchers, checked under SpecFetch.                     *)
(***************************************************************************)
\* C5: after the preprocessing of a price-bar fetcher every value of the
\* nine numeric columns is a finite number.
C5_NumericColumnsFinite ==
    \A i \in DOMAIN rows : \A f \in NumericFields : Finite(rows[i].num[f])

\* The rows fetch_daily_data_period and fetch_index_daily_by_trade_date
\* label.
Labelled ==
    fetched.op \in {"fetch_daily_data_period",
                    "fetch_index_daily_by_trade_date"}

\* C6: every row of fetch_daily_data_period and of
\* fetch_index_daily_by_trade_date carries one of the three status labels,
\* and a row labelled suspended or error is a placeholder: its numeric
\* columns are all 0.0 and its ts_code and trade_date are those asked for.
C6_StatusLabels ==
    Labelled =>
        \A i \in DOMAIN rows :
            /\ rows[i].data_status \in {Normal, Suspended, Error}
            /\ rows[i].data_status \in {Suspended, Error} =>
                   /\ \A f \in NumericFields : rows[i].num[f] = Zero
                   /\ rows[i].ts_code = fetched.asked[i][1]
                   /\ rows[i].trade_date = to_date(fetched.asked[i][2])

\* A fetch by trade date answered a suspended row and an error row.
C6_Witness ==
    /\ fetched.op = "fetch_index_daily_by_trade_date"
    /\ \E i, j \in DOMAIN rows :
           /\ rows[i].data_status = Suspended
           /\ rows[j].data_status = Error
           /\ rows[i].ts_code # rows[j].ts_code

(***************************************************************************)
(* RSIStrategy.calculate_rsi.  A float is a record [kind, num, den]: kind  *)
(* "num" is the rational num/den (den > 0), the other kinds are nan, +inf  *)
(* and -inf.  The arithmetic is exact.                                     *)
(***************************************************************************)
MaxLen == 4        \* longest price series
MaxPrice == 3      \* prices are 0..MaxPrice
MaxPeriod == 3     \* periods are 1..MaxPeriod

Num(n, d) == [kind |-> "num", num |-> n, den |-> d]
NaN == [kind |-> "nan", num |-> 0, den |-> 1]
Inf == [kind |-> "inf", num |-> 0, den |-> 1]
NegInf == [kind |-> "-inf", num |-> 0, den |-> 1]

Neg(a) ==
    CASE a.kind = "num" -> Num(0 - a.num, a.den)
      [] a.kind = "inf" -> NegInf
      [] a.kind = "-inf" -> Inf
      [] OTHER -> NaN

Add(a, b) ==
    CASE a.kind = "nan" \/ b.kind = "nan" -> NaN
      [] a.kind = "num" /\ b.kind = "num" ->
             Num(a.num * b.den + b.num * a.den, a.den * b.den)
      [] a.kind = "num" -> b
      [] b.kind = "num" -> a
      [] a.kind = b.kind -> a
      [] OTHER -> NaN

Sub(a, b) == Add(a, Neg(b))

\* The sign of a float that is not nan: -1, 0 or 1.
Sign(a) ==
    CASE a.kind = "inf" -> 1
      [] a.kind = "-inf" -> 0 - 1
      [] a.num > 0 -> 1
      [] a.num < 0 -> 0 - 1
      [] OTHER -> 0

Signed(s) == IF s > 0 THEN Inf ELSE IF s < 0 THEN NegInf ELSE NaN

\* a / b as numpy divides floats (x/0 is an infinity or nan, x/inf is 0).
Div(a, b) ==
    CASE a.kind = "nan" \/ b.kind = "nan" -> NaN
      [] a.kind # "num" /\ b.kind # "num" -> NaN
      [] b.kind # "num" -> Num(0, 1)
      [] b.num = 0 -> Signed(Sign(a))
      [] a.kind # "num" -> Signed(Sign(a) * Sign(b))
      [] OTHER -> Num(a.num * b.den * Sign(b), a.den * b.num * Sign(b))

\* prices.diff()
diff(s) ==
    [i \in DOMAIN s |-> IF i = 1 THEN NaN ELSE Sub(s[i], s[i - 1])]

\* delta.where(delta > 0, 0.0)
gain(delta) ==
    [i \in DOMAIN delta |->
        IF delta[i].kind # "nan" /\ Sign(delta[i]) > 0 THEN delta[i]
        ELSE Num(0, 1)]

\* loss without the leading minus: delta.where(delta < 0, 0.0)
loss_unturned(delta) ==
    [i \in DOMAIN delta |->
        IF delta[i].kind # "nan" /\ Sign(delta[i]) < 0 THEN delta[i]
        ELSE Num(0, 1)]

\* -delta.where(delta < 0, 0.0)
loss(delta) ==
    [i \in DOMAIN delta |->
        Neg(IF delta[i].kind # "nan" /\ Sign(delta[i]) < 0 THEN delta[i]
            ELSE Num(0, 1))]

\* The sum of s[lo..hi], nan entries left out.
RECURSIVE window_sum(_, _, _)
window_sum(s, lo, hi) ==
    IF hi < lo THEN Num(0, 1)
    ELSE IF s[hi].kind = "nan" THEN window_sum(s, lo, hi - 1)
    ELSE Add(window_sum(s, lo, hi - 1), s[hi])

\* s.rolling(window=w, min_periods=1).mean(): the mean of the entries of
\* the last w positions that are not nan, nan when there is none.
rolling_mean(s, w) ==
    [i \in DOMAIN s |->
        LET lo == IF i - w + 1 > 1 THEN i - w + 1 ELSE 1
            n == Cardinality({j \in lo..i : s[j].kind # "nan"})
        IN IF n = 0 THEN NaN ELSE Div(window_sum(s, lo, i), Num(n, 1))]

\* x.replace(0, float('inf'))
replace_zero(x) == IF x.kind = "num" /\ x.num = 0 THEN Inf ELSE x

\* rsi = 100 - (100 / (1 + rs)), rs = avg_gain / avg_loss.replace(0, inf)
rsi_of(avg_gain, avg_loss) ==
    Sub(Num(100, 1),
        Div(Num(100, 1), Add(Num(1, 1), Div(avg_gain, replace_zero(avg_loss)))))

averages(g, l, w) == [avg_gain |-> rolling_mean(g, w),
                      avg_loss |-> rolling_mean(l, w)]

rsi_series(a) ==
    [i \in DOMAIN a.avg_gain |-> rsi_of(a.avg_gain[i], a.avg_loss[i])]

rsi_from_delta(delta, w) == rsi_series(averages(gain(delta), loss(delta), w))

calculate_rsi(s, w) == rsi_from_delta(diff(s), w)

(***************************************************************************)
(* Specification SpecRSI: calculate_rsi applied to a price series.         *)
(***************************************************************************)
\* A close is a price or missing (nan).
PriceValues == {Num(p, 1) : p \in 0..MaxPrice} \cup {NaN}

RsiInit ==
    /\ ManagerMade
    /\ dbUp = TRUE
    /\ StoreIdle
    /\ FetchIdle
    /\ StrategyIdle
    /\ prices \in UNION {[1..n -> PriceValues] : n \in 1..MaxLen}
    /\ period \in 1..MaxPeriod
    /\ rsi = <<>>

CalculateRsi ==
    /\ rsi = <<>>
    /\ rsi' = calculate_rsi(prices, period)
    /\ UNCHANGED <<mgrVars, storeVars, fetchVars, prices, period, strategyVars>>

SpecRSI == RsiInit /\ [][CalculateRsi]_vars

(***************************************************************************)
(* Claims about calculate_rsi, checked under SpecRSI.                      *)
(***************************************************************************)
\* 0 <= x <= 100
InRange(x) == x.kind = "num" /\ 0 <= x.num /\ x.num <= 100 * x.den

\* C10: every value calculate_rsi returns that is not nan lies in the
\* closed interval [0, 100], for every period >= 1.
C10_RsiInRange ==
    \A i \in DOMAIN rsi : rsi[i].kind # "nan" => InRange(rsi[i])

\* The window has slid over a series with gains and losses: one value lies
\* strictly between 0 and 100, and one is the 0 of a window without a loss.
C10_Witness ==
    /\ rsi # <<>>
    /\ Len(prices) > period
    /\ \E i \in DOMAIN rsi : 0 < rsi[i].num /\ rsi[i].num < 100 * rsi[i].den
    /\ \E i \in DOMAIN rsi :
           /\ i > 1
           /\ prices[i].kind = "num" /\ prices[i - 1].kind = "num"
           /\ prices[i].num > prices[i - 1].num
           /\ rsi[i].num = 0

(***************************************************************************)
(* RSIStrategy.determine_rsi_status.                                       *)
(***************************************************************************)
Overbought == "overbought"    \* the label for rsi_value > 70
Oversold == "oversold"        \* the label for rsi_value < 30

\* a > b and a < b on floats: False when either is nan.
Gt(a, b) == a.kind # "nan" /\ b.kind # "nan" /\ Sub(a, b).kind # "nan"
            /\ Sign(Sub(a, b)) > 0
Lt(a, b) == Gt(b, a)

\* The thresholds taken as inclusive.
determine_rsi_status_inclusive(rsi_value) ==
    IF ~Lt(rsi_value, Num(70, 1)) /\ rsi_value.kind # "nan" THEN Overbought
    ELSE IF ~Gt(rsi_value, Num(30, 1)) /\ rsi_value.kind # "nan" THEN Oversold
    ELSE Normal

determine_rsi_status(rsi_value) ==
    IF Gt(rsi_value, Num(70, 1)) THEN Overbought
    ELSE IF Lt(rsi_value, Num(30, 1)) THEN Oversold
    ELSE Normal

(***************************************************************************)
(* Specification SpecStatus: determine_rsi_status applied to a value.      *)
(***************************************************************************)
MaxRsiValue == 101     \* the values are the halves from -1 to MaxRsiValue

RsiValues ==
    {Num(n, 2) : n \in (0 - 2)..(2 * MaxRsiValue)} \cup {NaN, Inf, NegInf}

StrategyInit ==
    /\ ManagerMade
    /\ dbUp = TRUE
    /\ StoreIdle
    /\ FetchIdle
    /\ RsiIdle
    /\ StrategyIdle

DetermineRsiStatus ==
    /\ \E rsi_value \in RsiValues :
           call' = [op |-> "determine_rsi_status", rsi_value |-> rsi_value,
                    status |-> determine_rsi_status(rsi_value)]
    /\ UNCHANGED <<mgrVars, storeVars, fetchVars, rsiVars>>

SpecStatus == StrategyInit /\ [][DetermineRsiStatus]_vars

\* C11: determine_rsi_status answers overbought exactly for a value above
\* 70, oversold exactly for a value below 30 and normal in every other
\* case; 30 and 70 themselves are normal.
C11_StatusThresholds ==
    call.op = "determine_rsi_status" =>
        LET v == call.rsi_value
            above == v.kind = "inf" \/ (v.kind = "num" /\ v.num > 70 * v.den)
            below == v.kind = "-inf" \/ (v.kind = "num" /\ v.num < 30 * v.den)
        IN /\ call.status = Overbought <=> above
           /\ call.status = Oversold <=> below
           /\ call.status = Normal <=> ~above /\ ~below

\* The value 70 was judged normal.
C11_Witness ==
    /\ call.op = "determine_rsi_status"
    /\ call.rsi_value = Num(140, 2)
    /\ call.status = Normal

\* C20: a window with a positive average gain and a zero average loss
\* (prices only rising) yields RSI = 100, which determine_rsi_status labels
\* overbought.  Checked under SpecRSI.
C20_RisingWindowIsUpperBound ==
    rsi # <<>> =>
        LET a == averages(gain(diff(prices)), loss(diff(prices)), period)
        IN \A i \in DOMAIN rsi :
               (Sign(a.avg_gain[i]) > 0 /\ Sign(a.avg_loss[i]) = 0) =>
                   /\ rsi[i].kind = "num" /\ rsi[i].num = 100 * rsi[i].den
                   /\ determine_rsi_status(rsi[i]) = Overbought

(***************************************************************************)
(* MomentumStrategy.  A group is the frame of one stock: a sequence of     *)
(* records [trade_date, close], trade_date a day number and close a float. *)
(***************************************************************************)
\* a * b on floats.
Mul(a, b) ==
    CASE a.kind = "nan" \/ b.kind = "nan" -> NaN
      [] a.kind = "num" /\ b.kind = "num" -> Num(a.num * b.num, a.den * b.den)
      [] OTHER -> Signed(Sign(a) * Sign(b))

Max(a, b) == IF a >= b THEN a ELSE b

\* The frame left as it came.
sort_values_not(group) == group

\* group.sort_values('trade_date')
RECURSIVE sort_values(_)
sort_values(group) ==
    IF group = <<>> THEN <<>>
    ELSE LET i == CHOOSE i \in DOMAIN group :
                      \A j \in DOMAIN group :
                          group[i].trade_date <= group[j].trade_date
             rest == [j \in 1..(Len(group) - 1) |->
                         IF j < i THEN group[j] ELSE group[j + 1]]
         IN <<group[i]>> \o sort_values(rest)

\* group.head(n) and group.tail(n)
head(group, n) == SubSeq(group, 1, Min(n, Len(group)))
tail(group, n) == SubSeq(group, Max(1, Len(group) - n + 1), Len(group))

RECURSIVE sum_close(_)
sum_close(group) ==
    IF group = <<>> THEN Num(0, 1)
    ELSE Add(sum_close(SubSeq(group, 1, Len(group) - 1)),
             group[Len(group)].close)

\* group['close'].mean()
mean_close(group) == Div(sum_close(group), Num(Len(group), 1))

\* (end_close - start_close) / start_close * 100
momentum_of(start_close, end_close) ==
    Mul(Div(Sub(end_close, start_close), start_close), Num(100, 1))

\* The record calculate_momentum appends for a group, sorted being the
\* group sorted; scored tells whether it appends one.  stable stands for
\* the outcome of the volatility and trend tests (lines 139-158): they
\* compare a standard deviation, a square root, which is not computed here.
momentum_row(sorted, window_size, min_data_points, stable) ==
    [scored |-> /\ Len(sorted) >= min_data_points
                /\ Gt(mean_close(head(sorted, window_size)), Num(0, 1))
                /\ stable,
     momentum |-> momentum_of(mean_close(head(sorted, window_size)),
                              mean_close(tail(sorted, window_size))),
     start_close |-> mean_close(head(sorted, window_size)),
     end_close |-> mean_close(tail(sorted, window_size)),
     start_date |-> sorted[1].trade_date,
     end_date |-> sorted[Len(sorted)].trade_date,
     data_points |-> Len(sorted)]

\* One pass of the loop of calculate_momentum.
calculate_momentum(group, min_data_points, stable) ==
    momentum_row(sort_values(group), Max(3, Len(group) \div 4),
                 min_data_points, stable)

(***************************************************************************)
(* MomentumStrategy.filter_stocks, applied as execute applies it: to the   *)
(* frame calculate_momentum returns, its rows sorted by momentum.  A row   *)
(* is a record [ts_code, momentum].                                        *)
(***************************************************************************)
\* momentum_df.sort_values('momentum', ascending=False)
RECURSIVE sort_momentum(_)
sort_momentum(momentum_df) ==
    IF momentum_df = <<>> THEN <<>>
    ELSE LET i == CHOOSE i \in DOMAIN momentum_df :
                      \A j \in DOMAIN momentum_df :
                          momentum_df[i].momentum >= momentum_df[j].momentum
             rest == [j \in 1..(Len(momentum_df) - 1) |->
                         IF j < i THEN momentum_df[j] ELSE momentum_df[j + 1]]
         IN <<momentum_df[i]>> \o sort_momentum(rest)

\* int(len(momentum_df) * 0.1): the double nearest to 0.1 lies above 0.1 and
\* the product is rounded to the nearest double, which is never below the
\* integer part of n/10.
top_tenth(n) == n \div 10

\* top_n without the max(1, ...).
filter_stocks_tenth(momentum_df) == head(momentum_df, top_tenth(Len(momentum_df)))

filter_stocks(momentum_df) ==
    IF momentum_df = <<>> THEN <<>>
    ELSE head(momentum_df, Max(1, top_tenth(Len(momentum_df))))

MaxStocks == 20     \* most stocks calculate_momentum scores

\* The momenta of the scored stocks, in the order of the groups: up to
\* three level stretches.
Momenta(n) ==
    {[i \in 1..n |-> IF i <= k1 THEN a ELSE IF i <= k2 THEN b ELSE c] :
        k1 \in 0..n, k2 \in 0..n, a \in (0 - 1)..1, b \in (0 - 1)..1,
        c \in (0 - 1)..1}

Results(momenta) ==
    [i \in DOMAIN momenta |-> [ts_code |-> i, momentum |-> momenta[i]]]

FilterStocks ==
    /\ call.op = "scored"
    /\ \E momentum_df \in {sort_momentum(call.momentum_results)} :
           call' = [op |-> "filter_stocks", momentum_df |-> momentum_df,
                    selected |-> filter_stocks(momentum_df)]
    /\ UNCHANGED <<mgrVars, storeVars, fetchVars, rsiVars>>

(***************************************************************************)
(* Specification SpecMomentum: calculate_momentum applied to the frame of  *)
(* a stock, whose closes form up to three level stretches, and             *)
(* filter_stocks applied to the sorted records of the scored stocks.       *)
(***************************************************************************)
MaxPoints == 16     \* most records of a stock
MaxClose == 2       \* closes are 0..MaxClose

Closes(n) ==
    {[i \in 1..n |-> IF i <= k1 THEN a ELSE IF i <= k2 THEN b ELSE c] :
        k1 \in 0..n, k2 \in 0..n, a \in 0..MaxClose, b \in 0..MaxClose,
        c \in 0..MaxClose}

\* The frame with these closes, in ascending or descending date order.
Group(closes, order) ==
    [i \in DOMAIN closes |->
        LET d == IF order = "asc" THEN i ELSE Len(closes) + 1 - i
        IN [trade_date |-> d, close |-> Num(closes[d], 1)]]

\* min_data_points or 20
MinDataPoints == {3, 20}

MomentumInit ==
    /\ ManagerMade
    /\ dbUp = TRUE
    /\ StoreIdle
    /\ FetchIdle
    /\ RsiIdle
    /\ \/ \E n \in 1..MaxPoints :
          \E closes \in Closes(n), order \in {"asc", "desc"} :
              call = [op |-> "none", group |-> Group(closes, order)]
       \/ \E n \in 0..MaxStocks :
          \E momenta \in Momenta(n) :
              call = [op |-> "scored", momentum_results |-> Results(momenta)]

CalculateMomentum ==
    /\ call.op = "none"
    /\ \E min_data_points \in MinDataPoints, stable \in BOOLEAN :
           call' = [op |-> "calculate_momentum", group |-> call.group,
                    min_data_points |-> min_data_points,
                    row |-> calculate_momentum(call.group, min_data_points,
                                               stable)]
    /\ UNCHANGED <<mgrVars, storeVars, fetchVars, rsiVars>>

MomentumNext ==
    \/ CalculateMomentum
    \/ FilterStocks

SpecMomentum == MomentumInit /\ [][MomentumNext]_vars

\* The sum of the closes of the records of group dated from lo to hi.
RECURSIVE DatedSum(_, _, _)
DatedSum(group, lo, hi) ==
    IF hi < lo THEN 0
    ELSE LET r == CHOOSE r \in {group[i] : i \in DOMAIN group} :
                      r.trade_date = hi
         IN DatedSum(group, lo, hi - 1) + r.close.num

\* m = (e - s) / s * 100 for s > 0
IsMomentum(m, s, e) ==
    m.kind = "num" /\ m.num * s = 100 * (e - s) * m.den

C12_TopTenth ==
    call.op = "filter_stocks" =>
        LET N == Len(call.momentum_df)
            kept == {call.selected[i].ts_code : i \in DOMAIN call.selected}
        IN /\ N = 0 => call.selected = <<>>
           /\ N > 0 =>
                  /\ Len(call.selected) = Max(1, N \div 10)
                  /\ Cardinality(kept) = Len(call.selected)
                  /\ \A i \in DOMAIN call.selected :
                         \E j \in DOMAIN call.momentum_df :
                             call.momentum_df[j] = call.selected[i]
                  /\ \A i, j \in DOMAIN call.momentum_df :
                         (call.momentum_df[i].ts_code \in kept
                              /\ call.momentum_df[j].ts_code \notin kept) =>
                             call.momentum_df[i].momentum
                                 >= call.momentum_df[j].momentum

\* Two of MaxStocks stocks were kept, and a stock with the momentum of a
\* kept one was left out.
C12_Witness ==
    /\ call.op = "filter_stocks"
    /\ Len(call.momentum_df) = MaxStocks
    /\ Len(call.selected) = 2
    /\ call.momentum_df[3].momentum = call.selected[2].momentum
    /\ call.momentum_df[MaxStocks].momentum < call.selected[2].momentum

\* C14: the frame fetch_daily_data_period returns holds a row for every date
\* of the period: a non-trading day or a day of suspension appears as an
\* empty row with its reason.  Checked under SpecFetch, the period being
\* the dates of Calendar, for the calls that return rows.
C14_EveryDateOfPeriod ==
    (fetched.op = "fetch_daily_data_period" /\ rows # <<>>) =>
        \A i \in DOMAIN Calendar :
            \E j \in DOMAIN rows : rows[j].trade_date = to_date(Calendar[i])

\* ---- WeeklyDataManager: the incremental fetch of a period ----

\* The place of a 'YYYYMMDD' string in the order of the strings, which is the
\* order "last_date < end_date" compares in.
Ord(ymd) == CHOOSE i \in DOMAIN Calendar : Calendar[i] = ymd
\* x.strftime('%Y%m%d') of a stored DATETIME value
Ymd_of(dt) == (CHOOSE f \in DateForms : f.datetime = dt).Ymd
\* (pd.to_datetime(last_date) + pd.Timedelta(days=1)).strftime('%Y%m%d')
day_after(ymd) ==
    IF Ord(ymd) < Len(Calendar) THEN Calendar[Ord(ymd) + 1] ELSE "20250104"

\* SELECT MAX(trade_date) FROM weekly_data WHERE ts_code = ...: the latest
\* stored date of the stock as 'YYYYMMDD', None when it has no row.
max_trade_date(tab, ts_code) ==
    LET S == {r \in DOMAIN tab : tab[r] > 0 /\ r.ts_code = ts_code} IN
    IF S = {} THEN None
    ELSE Ymd_of((CHOOSE r \in S :
                    \A q \in S : Ord(Ymd_of(q.date)) <= Ord(Ymd_of(r.date))).date)

\* What pro.weekly can answer: the weekly bars of the range, nothing, or an
\* exception.
RemoteKinds == {"rows", "empty", "raises"}
\* The bar of the i-th calendar day.
weekly_bar(ts_code, i, val) ==
    [ts_code |-> ts_code, trade_date |-> to_date(Calendar[i]), val |-> val]
\* The bars of ts_code dated in [start_date, end_date].
in_period(ts_code, start_date, end_date, r) ==
    /\ <<ts_code, r.trade_date>> \in Traded
    /\ Ord(start_date) <= Ord(strftime_Ymd(r.trade_date))
    /\ Ord(strftime_Ymd(r.trade_date)) <= Ord(end_date)

\* fetch_weekly_data_period: fetch_weekly_data on the range; None (no data,
\* or an exception, which fetch_weekly_data catches) becomes an empty frame.
fetch_weekly_data_period(ts_code, start_date, end_date, remote) ==
    IF remote.kind # "rows" THEN <<>>
    ELSE SelectSeq([i \in DOMAIN Calendar |-> weekly_bar(ts_code, i, remote.val)],
                   LAMBDA r : in_period(ts_code, start_date, end_date, r))

\* What the incremental handler hands back: the manager and table after it,
\* the tuples it committed, the ranges it asked the remote API for and the
\* frame it returns.
weekly_result(w, tab, committed, asked, frame) ==
    [w |-> w, table |-> tab, committed |-> committed, asked |-> asked,
     frame |-> frame]

\* "if not df.empty: self._save_weekly_data_to_mysql(df)" and the return of
\* df; an exception of the save goes to the outer "except Exception", which
\* returns an empty frame.
weekly_saved(r, asked, frame) ==
    weekly_result(r.w, r.table, r.committed, asked,
                  IF r.ret = Raised THEN <<>> ELSE frame)

\* The branch taken when no stored date was found: the whole requested range
\* is fetched and saved.
weekly_full(w, tab, ts_code, start_date, end_date, frame, in) ==
    IF frame = <<>>
    THEN weekly_result(w, tab, <<>>, <<<<start_date, end_date>>>>, <<>>)
    ELSE weekly_saved(save("weekly_data", w, tab,
                           data_tuples("weekly_data", frame, None, None), in),
                      <<<<start_date, end_date>>>>, frame)

\* fetch_and_save_weekly_data_period_incremental after execute_query returned
\* q.  execute_query returns cursor.fetchall(), a list: one row for a
\* SELECT MAX(...), hence a true value, and "existing_data.empty" raises
\* AttributeError, which the outer "except Exception" turns into an empty
\* frame; so does an exception of execute_query itself.  Only None (the
\* statement failed) reaches a branch that fetches: the else branch.  The
\* branch that compares last_date with end_date is never reached.
incremental_after_query(q, tab, ts_code, start_date, end_date, remote, in) ==
    IF q.ret = None
    THEN weekly_full(q.w, tab, ts_code, start_date, end_date,
                     fetch_weekly_data_period(ts_code, start_date, end_date,
                                              remote), in)
    ELSE weekly_result(q.w, tab, <<>>, <<>>, <<>>)

\* WeeklyDataManager.fetch_and_save_weekly_data_period_incremental, p being
\* the pair of start_date and end_date.
fetch_and_save_weekly_data_period_incremental(w, tab, ts_code, p, queryErr, remote, in) ==
    incremental_after_query(execute_query(w, queryErr), tab, ts_code,
                            p[1], p[2], remote, in)

\* WeeklyDataManager.fetch_and_save_weekly_data_period: the range is fetched,
\* and when it has rows fetch_and_save_weekly_data fetches it again and saves
\* it (the remote API answers both requests alike).
fetch_and_save_weekly_data_period(w, tab, ts_code, p, frame, in) ==
    IF frame = <<>>
    THEN weekly_result(w, tab, <<>>, <<p>>, <<>>)
    ELSE weekly_saved(save("weekly_data", w, tab,
                           data_tuples("weekly_data", frame, None, None), in),
                      <<p>>, frame)

\* The arguments and inputs of a weekly call.
CalendarDays == {Calendar[i] : i \in DOMAIN Calendar}
Periods == {p \in CalendarDays \X CalendarDays : Ord(p[1]) <= Ord(p[2])}
Remotes == {r \in [kind : RemoteKinds, val : Vals] :
               r.kind = "rows" \/ r.val = "v1"}
SaveInputs == [batch_size : {1}, createErr : BOOLEAN, failing : SUBSET {1}]

\* The model starts with an empty weekly_data table.
WeeklyInit == StoreStart({"weekly_data"})

\* What a weekly call leaves behind.
WeeklyDone(r, op, ts_code, p, second) ==
    /\ SetWorld(r.w)
    /\ table' = r.table
    /\ hist' = [k \in DOMAIN hist |-> last_value(hist, k, r.committed)]
    /\ fetched' = [op |-> op, ret |-> r.frame, asked |-> r.asked,
                   ts_code |-> ts_code, start_date |-> p[1],
                   end_date |-> p[2],
                   last_date |-> max_trade_date(table, ts_code),
                   second |-> second]
    /\ UNCHANGED <<tbl, df, saved, last, firstConfig, fetcher, rows, rsiVars,
                   strategyVars>>

FetchAndSaveWeeklyPeriod ==
    \E ts_code \in Codes, p \in Periods, remote \in Remotes, in \in SaveInputs :
    \E frame \in {fetch_weekly_data_period(ts_code, p[1], p[2], remote)} :
    \E r \in {fetch_and_save_weekly_data_period(World, table, ts_code, p,
                                                frame, in)} :
        WeeklyDone(r, "fetch_and_save_weekly_data_period", ts_code, p, FALSE)

\* second: the call repeats the previous incremental call's arguments.
FetchAndSaveWeeklyIncremental ==
    \E ts_code \in Codes, p \in Periods, queryErr \in BOOLEAN,
       remote \in Remotes, in \in SaveInputs :
    \E r \in {fetch_and_save_weekly_data_period_incremental(
                  World, table, ts_code, p, queryErr, remote, in)} :
        WeeklyDone(r, "incremental", ts_code, p,
                   /\ fetched.op = "incremental"
                   /\ fetched.ts_code = ts_code
                   /\ fetched.start_date = p[1]
                   /\ fetched.end_date = p[2])

WeeklyNext ==
    \/ FetchAndSaveWeeklyPeriod
    \/ FetchAndSaveWeeklyIncremental
    \/ ServerUp
SpecWeekly == WeeklyInit /\ [][WeeklyNext]_vars

\* C15: an incremental call fetches the whole range [start_date, end_date]
\* when the stock has no stored row, exactly [last_date + 1 day, end_date]
\* when its latest stored date is before end_date, and nothing (returning an
\* empty frame) when the latest stored date is end_date or later.
C15_FetchesOnlyMissingRange ==
    fetched.op = "incremental" =>
        IF fetched.last_date = None
        THEN fetched.asked = <<<<fetched.start_date, fetched.end_date>>>>
        ELSE IF Ord(fetched.last_date) < Ord(fetched.end_date)
        THEN fetched.asked = <<<<day_after(fetched.last_date),
                                 fetched.end_date>>>>
        ELSE fetched.asked = <<>> /\ fetched.ret = <<>>

\* C16: the monthly and daily_basic save handlers report success truthfully:
\* the success_count they print is the number of rows of the batches that
\* were committed, and they return True only if a batch was committed.
C16_ReportsCommittedRows ==
    (saved.op = "save" /\ tbl \in CountsUnchecked) =>
        /\ saved.success_count = saved.committed
        /\ saved.ret = True => saved.committed > 0

\* ---- CSI300RelativeStrengthStrategy.filter_stocks ----

\* The strategy parameters set by __init__.
ma_period == 90
min_volume == 1000000
min_outperformance_days == 54
min_total_score == 0

\* 'ST' in str(name), a name being a sequence of characters.
contains_ST(name) ==
    \E i \in 1..(Len(name) - 1) : name[i] = "S" /\ name[i + 1] = "T"

\* outperformance_ratio < min_outperformance_days / ma_period, the ratio
\* being outperformance_days / scored_days.
ratio_below(stock, days, of_days) ==
    stock.outperformance_days * of_days < days * stock.scored_days

\* The four tests of the loop body: whether the stock is appended.
passes(stock) ==
    /\ ~(stock.total_score <= min_total_score)
    /\ ~ratio_below(stock, min_outperformance_days, ma_period)
    /\ ~(stock.latest_volume < min_volume)
    /\ ~contains_ST(stock.name)

\* list.sort(key=total_score, reverse=True): a stable sort, the stocks of
\* equal score keeping their order.
RECURSIVE sort_by_score(_)
sort_by_score(stocks) ==
    IF stocks = <<>> THEN <<>>
    ELSE LET top == CHOOSE i \in DOMAIN stocks :
                        /\ \A j \in DOMAIN stocks :
                               stocks[j].total_score <= stocks[i].total_score
                        /\ \A j \in 1..(i - 1) :
                               stocks[j].total_score < stocks[i].total_score
         IN <<stocks[top]>> \o
            sort_by_score([j \in 1..(Len(stocks) - 1) |->
                              IF j < top THEN stocks[j] ELSE stocks[j + 1]])

\* CSI300RelativeStrengthStrategy.filter_stocks
filter_stocks_csi300(stock_scores) ==
    sort_by_score(SelectSeq(stock_scores, passes))

\* The scored stocks _calculate_relative_strength_scores can hand over: up
\* to MaxScored of them, with scores around min_total_score, ratios of
\* ScoredDays scored days around the threshold, volumes around min_volume
\* and names with and without 'ST'.
MaxScored == 2
ScoredDays == 10
Names == {<<"P", "A">>, <<"*", "S", "T", "A">>}
ScoredStocks ==
    [total_score : (min_total_score - 1)..(min_total_score + 2),
     outperformance_days : 5..8,
     scored_days : {ScoredDays},
     latest_volume : {min_volume - 1, min_volume},
     name : Names]
StockScores == UNION {[1..n -> ScoredStocks] : n \in 0..MaxScored}

Csi300Init ==
    /\ ManagerMade
    /\ dbUp = TRUE
    /\ StoreIdle
    /\ FetchIdle
    /\ RsiIdle
    /\ \E stock_scores \in StockScores :
           call = [op |-> "scores", stock_scores |-> stock_scores]

FilterStocksCsi300 ==
    /\ call.op = "scores"
    /\ call' = [op |-> "csi300_filter", stock_scores |-> call.stock_scores,
                filtered_stocks |-> filter_stocks_csi300(call.stock_scores)]
    /\ UNCHANGED <<mgrVars, storeVars, fetchVars, rsiVars>>

SpecCsi300 == Csi300Init /\ [][FilterStocksCsi300]_vars

\* C17: filter_stocks keeps a stock only if its outperformance_ratio is at
\* least 0.8, its total_score is above 0, its latest_volume is at least
\* 1,000,000 and its name does not contain 'ST'; the kept stocks come in
\* descending total_score order.
C17_KeepsOnlyStrongStocks ==
    call.op = "csi300_filter" =>
        /\ \A i \in DOMAIN call.filtered_stocks :
               LET stock == call.filtered_stocks[i] IN
               /\ stock.outperformance_days * 10 >= 8 * stock.scored_days
               /\ stock.total_score > 0
               /\ stock.latest_volume >= 1000000
               /\ ~contains_ST(stock.name)
        /\ \A i, j \in DOMAIN call.filtered_stocks :
               i < j => call.filtered_stocks[i].total_score
                            >= call.filtered_stocks[j].total_score

\* ---- BaseStrategy.run ----

\* The methods of a strategy in the order run calls them.
Steps == <<"prepare_data", "execute", "save_results">>

\* What run leaves behind: the methods it called, in order, whether an
\* exception left it and the list it returned.
ran(n, raised, ret) ==
    [calls |-> SubSeq(Steps, 1, n), raised |-> raised, ret |-> ret]

\* The variant of run that does not look at what prepare_data returned.
run_unprepared(strategy) ==
    IF strategy.prepare_data = Raised THEN ran(1, TRUE, <<>>)
    ELSE IF strategy.execute.raises THEN ran(2, TRUE, <<>>)
    ELSE IF strategy.save_results = Raised THEN ran(3, TRUE, <<>>)
    ELSE ran(3, FALSE, strategy.execute.results)

\* BaseStrategy.run on a strategy whose methods behave as strategy says:
\* prepare_data and save_results return a value or raise, execute returns a
\* list or raises.  run has no try: an exception of a method leaves it.
run(strategy) ==
    IF strategy.prepare_data = Raised THEN ran(1, TRUE, <<>>)
    ELSE IF strategy.prepare_data # True THEN ran(1, FALSE, <<>>)
    ELSE IF strategy.execute.raises THEN ran(2, TRUE, <<>>)
    ELSE IF strategy.save_results = Raised THEN ran(3, TRUE, <<>>)
    ELSE ran(3, FALSE, strategy.execute.results)

\* The strategies: what the methods of a subclass do when run calls them.
\* execute selects up to MaxSelected stocks.
MaxSelected == 3
Selected == UNION {[1..n -> Codes] : n \in 0..MaxSelected}
Strategies ==
    [prepare_data : {True, False, None, Raised},
     execute : [raises : {FALSE}, results : Selected]
                   \cup [raises : {TRUE}, results : {<<>>}],
     save_results : {True, False, Raised}]

RunInit ==
    /\ ManagerMade
    /\ dbUp = TRUE
    /\ StoreIdle
    /\ FetchIdle
    /\ RsiIdle
    /\ \E strategy \in Strategies :
           call = [op |-> "strategy", strategy |-> strategy]

Run ==
    /\ call.op = "strategy"
    /\ call' = [op |-> "run", strategy |-> call.strategy,
                out |-> run(call.strategy)]
    /\ UNCHANGED <<mgrVars, storeVars, fetchVars, rsiVars>>

SpecRun == RunInit /\ [][Run]_vars

\* C18: run calls prepare_data, execute and save_results at most once each
\* and in that order; when prepare_data returns False it calls neither
\* execute nor save_results and returns the empty list; otherwise it returns
\* the list execute returned, whatever save_results returns.
C18_RunOrder ==
    call.op = "run" =>
        /\ \E n \in 0..Len(Steps) : call.out.calls = SubSeq(Steps, 1, n)
        /\ call.strategy.prepare_data = False =>
               /\ call.out.calls = <<"prepare_data">>
               /\ ~call.out.raised
               /\ call.out.ret = <<>>
        /\ (/\ call.strategy.prepare_data = True
            /\ ~call.strategy.execute.raises
            /\ call.strategy.save_results # Raised) =>
               /\ call.out.calls = Steps
               /\ ~call.out.raised
               /\ call.out.ret = call.strategy.execute.results

\* A run whose save_results returned False and which still returned the two
\* stocks execute selected.
C18_Witness ==
    /\ call.op = "run"
    /\ call.strategy.prepare_data = True
    /\ call.strategy.save_results = False
    /\ Len(call.strategy.execute.results) = 2
    /\ call.out.ret = call.strategy.execute.results
    /\ call.out.calls = Steps

\* ---- ETFIndexDailyManager.fetch_and_save_index_daily_period ----

\* The loop's state: the manager and the table, buffer and all_data (as
\* rows), and what was observed: pending, the rows of buffer after each
\* trading day processed; submitted, the frames handed to
\* _save_index_daily_to_mysql; oks, what the saves returned; raised, an
\* exception left the try block.
period_start(w, tab) ==
    [w |-> w, table |-> tab, buffer |-> <<>>, all_data |-> <<>>,
     pending |-> <<>>, submitted |-> <<>>, oks |-> <<>>, raised |-> FALSE]

\* The variant that keeps the buffer of a failed save for the next one.
after_save_retrying(s, r) ==
    IF r.ret = Raised
    THEN [s EXCEPT !.w = r.w, !.submitted = Append(@, s.buffer),
                   !.raised = TRUE]
    ELSE [s EXCEPT !.w = r.w, !.table = r.table,
                   !.submitted = Append(@, s.buffer),
                   !.oks = Append(@, r.ret),
                   !.buffer = IF r.ret = True THEN <<>> ELSE @]

\* The loop after _save_index_daily_to_mysql(to_save) returned r:
\* buffer.clear() whatever ok is; an exception skips it.
after_save(s, r) ==
    IF r.ret = Raised
    THEN [s EXCEPT !.w = r.w, !.submitted = Append(@, s.buffer),
                   !.raised = TRUE]
    ELSE [s EXCEPT !.w = r.w, !.table = r.table,
                   !.submitted = Append(@, s.buffer),
                   !.oks = Append(@, r.ret), !.buffer = <<>>]

\* to_save = pd.concat(buffer); ok = self._save_index_daily_to_mysql(to_save).
\* in.failing: the saves whose INSERT fails, counted from the first one.
save_buffer(s, in) ==
    after_save(s, save_frame(s.w, "etf_index_daily", s.table,
                             data_tuples("etf_index_daily", s.buffer,
                                         None, None),
                             in.createErr,
                             (Len(s.submitted) + 1) \in in.failing))

\* The end of a pass of the loop over the trading days.
day_done(s) ==
    IF s.raised THEN s ELSE [s EXCEPT !.pending = Append(@, Len(s.buffer))]

\* buffer.append(daily_df); all_data.append(daily_df)
appended(s, daily_df) ==
    [s EXCEPT !.buffer = @ \o daily_df, !.all_data = @ \o daily_df]

\* "if curr_count >= batch_size" on the buffer of s
save_if_full(s, batch_size, in) ==
    IF Len(s.buffer) >= batch_size THEN save_buffer(s, in) ELSE s

\* One pass of the loop: a day without data leaves the buffer alone.
process_day(s, daily_df, batch_size, in) ==
    IF daily_df = <<>> THEN day_done(s)
    ELSE day_done(save_if_full(appended(s, daily_df), batch_size, in))

\* The loop over trading_days from its i-th day on; an exception ends it.
RECURSIVE period_loop(_, _, _, _)
period_loop(s, daily_dfs, i, in) ==
    IF i > Len(daily_dfs) \/ s.raised THEN s
    ELSE period_loop(process_day(s, daily_dfs[i], in.batch_size, in),
                     daily_dfs, i + 1, in)

\* "if buffer:" after the loop: the rest of the buffer is saved.
save_rest(s, in) ==
    IF s.raised \/ s.buffer = <<>> THEN s ELSE save_buffer(s, in)

\* The frame returned: pd.concat(all_data), or the empty frame of the
\* "except Exception" branch.
period_returned(s) ==
    [s EXCEPT !.all_data = IF s.raised THEN <<>> ELSE @]

\* What fetch_index_daily_by_trade_date returns for a trading day: the
\* rows of the codes that answered (None and an empty frame are treated
\* alike by the caller).
daily_rows(trade_date, codes) ==
    [i \in DOMAIN codes |->
        [ts_code |-> codes[i], trade_date |-> trade_date, val |-> "v1"]]

\* ETFIndexDailyManager.fetch_and_save_index_daily_period.  in.cal: the open
\* days pro.trade_cal answered (an exception of pro.trade_cal, an empty
\* calendar and one without open days all return an empty frame before the
\* loop); in.codes[d]: the codes with data on day d.
fetch_and_save_index_daily_period(w, tab, in) ==
    IF in.cal = <<>>
    THEN period_start(w, tab)
    ELSE period_returned(save_rest(
             period_loop(period_start(w, tab),
                         [i \in DOMAIN in.cal |->
                             daily_rows(in.cal[i], in.codes[in.cal[i]])],
                         1, in), in))

\* The calls made: the open days pro.trade_cal reports, the codes answering
\* on each day, batch_size and the failures of the statements.
MaxPeriodBatch == 4
CodeSeqs == {<<>>, <<"000001.SZ">>, <<"000300.SH">>,
             <<"000001.SZ", "000300.SH">>}
OpenDays == {<<>>, <<"date(2025,1,2)">>, <<"date(2025,1,3)">>,
             <<"date(2025,1,2)", "date(2025,1,3)">>}
PeriodCalls ==
    [cal : OpenDays, codes : [Days -> CodeSeqs],
     batch_size : 1..MaxPeriodBatch, failing : SUBSET (1..2),
     createErr : BOOLEAN]

\* The manager is made, the table etf_index_daily is empty and a call of
\* fetch_and_save_index_daily_period is about to be made.
PeriodInit ==
    /\ ManagerMade
    /\ dbUp \in BOOLEAN
    /\ RsiIdle
    /\ StrategyIdle
    /\ fetcher = "none"
    /\ rows = <<>>
    /\ tbl = "etf_index_daily"
    /\ table = [r \in StoredRows(tbl) |-> 0]
    /\ df = <<>>
    /\ hist = [k \in StoredKeys(tbl) |-> None]
    /\ saved = NoSave
    /\ \E in \in PeriodCalls : fetched = [op |-> "call", in |-> in]

FetchAndSaveIndexDailyPeriod ==
    /\ fetched.op = "call"
    /\ \E r \in {fetch_and_save_index_daily_period(World, table, fetched.in)} :
        /\ SetWorld(r.w)
        /\ table' = r.table
        /\ fetched' = [op |-> "fetch_and_save_index_daily_period",
                       in |-> fetched.in, ret |-> r.all_data,
                       buffer |-> r.buffer, pending |-> r.pending,
                       submitted |-> r.submitted, oks |-> r.oks,
                       raised |-> r.raised]
        /\ UNCHANGED <<tbl, df, hist, saved, last, firstConfig, fetcher, rows,
                       rsiVars, strategyVars>>

SpecPeriod == PeriodInit /\ [][FetchAndSaveIndexDailyPeriod]_vars

\* The rows fetched over the days the loop went through.
RECURSIVE Concat(_)
Concat(frames) ==
    IF frames = <<>> THEN <<>> ELSE Head(frames) \o Concat(Tail(frames))
\* How many times row x was handed to a save.
Submissions(x) ==
    Cardinality({p \in {<<i, j>> : i \in 1..2, j \in 1..4} :
                    /\ p[1] \in DOMAIN fetched.submitted
                    /\ p[2] \in DOMAIN fetched.submitted[p[1]]
                    /\ fetched.submitted[p[1]][p[2]] = x})

batches_of(data, batch_size) ==
    [n \in 1..NumBatches(data, batch_size) |-> Batch(data, batch_size, n)]

\* The row lists and batch sizes: up to MaxData rows, batch sizes from 1 to
\* above the longest list.
MaxData == 5
RowLists == UNION {[1..n -> Vals] : n \in 0..MaxData}

BatchInit ==
    /\ ManagerMade
    /\ dbUp = TRUE
    /\ StoreIdle
    /\ FetchIdle
    /\ RsiIdle
    /\ \E data \in RowLists, batch_size \in 1..(MaxData + 1) :
           call = [op |-> "data", data |-> data, batch_size |-> batch_size]

TakeBatches ==
    /\ call.op = "data"
    /\ call' = [op |-> "batches", data |-> call.data,
                batch_size |-> call.batch_size,
                batches |-> batches_of(call.data, call.batch_size)]
    /\ UNCHANGED <<mgrVars, storeVars, fetchVars, rsiVars>>

SpecBatch == BatchInit /\ [][TakeBatches]_vars

\* The batches that hold the i-th row of the list.
Holding(i) ==
    {n \in DOMAIN call.batches :
        /\ (n - 1) * call.batch_size < i
        /\ i <= (n - 1) * call.batch_size + Len(call.batches[n])}

\* C21: the batches data[i:i+b] for i = 0, b, 2b, ... partition the list:
\* concatenated in order they are the list, every batch has at most b rows,
\* every batch but the last has exactly b rows, and every row is in exactly
\* one batch.
C21_BatchesPartition ==
    call.op = "batches" =>
        /\ Concat(call.batches) = call.data
        /\ \A n \in DOMAIN call.batches :
               /\ Len(call.batches[n]) <= call.batch_size
               /\ n < Len(call.batches) =>
                      Len(call.batches[n]) = call.batch_size
        /\ \A i \in DOMAIN call.data :
               /\ Cardinality(Holding(i)) = 1
               /\ \A n \in Holding(i) :
                      call.batches[n][i - (n - 1) * call.batch_size]
                          = call.data[i]

\* Five rows taken two at a time: two full batches and a last one of one row.
C21_Witness ==
    /\ call.op = "batches"
    /\ Len(call.data) = 5
    /\ call.batch_size = 2
    /\ Len(call.batches) = 3
    /\ Len(call.batches[3]) = 1

\* ---- The entries of fetch_daily_data_period ----

\* The entries of the returned frame dated on the k-th calendar day.
EntriesOf(k) ==
    {j \in DOMAIN rows : rows[j].trade_date = to_date(Calendar[k])}
\* The trading days before the k-th calendar day.
OpenBefore(k) ==
    {m \in DOMAIN Calendar : m < k /\ fetched.is_open[m] = 1}
\* A row made by _create_empty_daily_data.
IsPlaceholder(row) ==
    /\ \A f \in NumericFields : row.num[f] = Zero
    /\ row.data_status # Normal

C23_RaisedDayLabelledError ==
    (fetched.op = "fetch_daily_data_period" /\ ~fetched.calRaises) =>
        \A i \in DOMAIN fetched.outcomes :
            (fetched.outcomes[i] = "raises" /\ i \in DOMAIN rows) =>
                rows[i].data_status = Error

\* ---- MonthlyDataManager._get_monthly_dates ----

\* A 'YYYYMMDD' string is written as the number it spells: strings of eight
\* digits compare as their numbers do, and date_str[:6] is the number
\* without its last two digits.  The empty string of current_month and
\* last_trade_date is written 0.
month_str(date_str) == date_str \div 100

\* sorted(open_days)
RECURSIVE sorted(_)
sorted(days) ==
    IF days = <<>> THEN <<>>
    ELSE LET least == CHOOSE i \in DOMAIN days :
                          /\ \A j \in DOMAIN days : days[i] <= days[j]
                          /\ \A j \in 1..(i - 1) : days[i] < days[j]
         IN <<days[least]>> \o
            sorted([j \in 1..(Len(days) - 1) |->
                       IF j < least THEN days[j] ELSE days[j + 1]])

\* The variant of the loop body that keeps the first trading day of a month.
month_step_first(s, date_str) ==
    IF month_str(date_str) # s.current_month
    THEN [monthly_dates |-> Append(s.monthly_dates, date_str),
          current_month |-> month_str(date_str),
          last_trade_date |-> 0]
    ELSE s

\* The body of "for date_str in sorted(open_days)".
month_step(s, date_str) ==
    IF month_str(date_str) # s.current_month
    THEN [monthly_dates |-> IF s.last_trade_date # 0
                            THEN Append(s.monthly_dates, s.last_trade_date)
                            ELSE s.monthly_dates,
          current_month |-> month_str(date_str),
          last_trade_date |-> date_str]
    ELSE [s EXCEPT !.last_trade_date = date_str]

\* The loop over the sorted open days, from the i-th on.
RECURSIVE month_loop(_, _, _)
month_loop(s, days, i) ==
    IF i > Len(days) THEN s
    ELSE month_loop(month_step(s, days[i]), days, i + 1)

\* "if last_trade_date and last_trade_date not in monthly_dates: append"
last_month(s) ==
    IF /\ s.last_trade_date # 0
       /\ \A i \in DOMAIN s.monthly_dates :
              s.monthly_dates[i] # s.last_trade_date
    THEN Append(s.monthly_dates, s.last_trade_date)
    ELSE s.monthly_dates

\* MonthlyDataManager._get_monthly_dates on what pro.trade_cal did: kind
\* "rows" with the columns cal_date and is_open, "empty" or "raises".
get_monthly_dates(cal) ==
    IF cal.kind # "rows" THEN <<>>
    ELSE last_month(month_loop([monthly_dates |-> <<>>, current_month |-> 0,
                                last_trade_date |-> 0],
                               sorted(open_days(cal.cal_date, cal.is_open)),
                               1))

\* The calendar days of the model: the last days of January 2025, two days
\* of February and the first of March.
CalDates == <<20250127, 20250131, 20250203, 20250228, 20250303>>
\* The calendar of [start_date, end_date], oldest day first or, as the
\* service lists it, newest day first.
RECURSIVE reversed(_)
reversed(seq) ==
    IF seq = <<>> THEN <<>> ELSE Append(reversed(Tail(seq)), Head(seq))
TradeCals ==
    {[kind |-> k, cal_date |-> d, is_open |-> o] :
        k \in {"empty", "raises"}, d \in {<<>>}, o \in {<<>>}}
    \cup UNION {
        {[kind |-> "rows", cal_date |-> d, is_open |-> o] :
            d \in {SubSeq(CalDates, a, b), reversed(SubSeq(CalDates, a, b))},
            o \in [1..(b - a + 1) -> {0, 1}]} :
        a \in DOMAIN CalDates, b \in DOMAIN CalDates}

MonthlyDatesInit ==
    /\ ManagerMade
    /\ dbUp = TRUE
    /\ StoreIdle
    /\ FetchIdle
    /\ RsiIdle
    /\ \E cal \in TradeCals : call = [op |-> "trade_cal", cal |-> cal]

GetMonthlyDates ==
    /\ call.op = "trade_cal"
    /\ call' = [op |-> "get_monthly_dates", cal |-> call.cal,
                monthly_dates |-> get_monthly_dates(call.cal)]
    /\ UNCHANGED <<mgrVars, storeVars, fetchVars, rsiVars>>

SpecMonthlyDates == MonthlyDatesInit /\ [][GetMonthlyDates]_vars

\* The trading days of the calendar handed to _get_monthly_dates.
TradingDays ==
    {call.cal.cal_date[i] : i \in {j \in DOMAIN call.cal.cal_date :
                                      call.cal.is_open[j] = 1}}

\* C24: _get_monthly_dates returns, in ascending order, exactly one date for
\* every month that has a trading day in the range, the latest trading day of
\* that month; it returns the empty list when the calendar is empty, has no
\* open day or the calendar call fails.
C24_LastTradingDayOfMonth ==
    call.op = "get_monthly_dates" =>
        LET out == call.monthly_dates IN
        /\ \A i, j \in DOMAIN out : i < j => out[i] < out[j]
        /\ \A d \in TradingDays :
               Cardinality({i \in DOMAIN out : out[i] \div 100 = d \div 100})
                   = 1
        /\ \A i \in DOMAIN out :
               /\ out[i] \in TradingDays
               /\ \A d \in TradingDays :
                      d \div 100 = out[i] \div 100 => d <= out[i]
        /\ (call.cal.kind # "rows" \/ TradingDays = {}) => out = <<>>

\* A calendar listed newest day first with trading days in three months, of
\* which the two of February give the later one.
C24_Witness ==
    /\ call.op = "get_monthly_dates"
    /\ call.cal.kind = "rows"
    /\ call.cal.cal_date = reversed(CalDates)
    /\ call.cal.is_open = <<1, 1, 1, 1, 0>>
    /\ call.monthly_dates = <<20250131, 20250228, 20250303>>

\* C25: RSIStrategy.save_results returns True exactly when every batch was
\* committed, the rows counted as saved being all the result rows; it returns
\* False for an empty result list, when the table could not be created and
\* when a batch failed, and after a failed batch the remaining batches are
\* still submitted.
C25_TrueIffAllCommitted ==
    (saved.op = "save" /\ tbl = "rsi_days_data") =>
        /\ saved.ret \in {True, False}
        /\ saved.ret = True <=>
               (df # <<>> /\ saved.entered /\ saved.committed = Len(df))
        /\ saved.success_count = saved.committed
        /\ saved.entered => saved.log = [n \in 1..saved.batches |-> n]

\* Two results saved in two batches: the first batch failed, the second was
\* submitted all the same and committed, and False was returned.
C25_Witness ==
    /\ saved.op = "save"
    /\ tbl = "rsi_days_data"
    /\ Len(df) = 2
    /\ saved.batches = 2
    /\ saved.log = <<1, 2>>
    /\ saved.committed = 1
    /\ saved.ret = False

\* ---- MySQLManager.execute_many, statement by statement ----

\* The connection in autocommit mode: what executemany wrote stays.
end_transaction_autocommit(committed, tab, pending) == pending

\* The table after the transaction of a connection ended: its rows are
\* stored by commit(); rollback() drops them, and so does the server when
\* the connection is lost with the transaction open.
end_transaction(committed, tab, pending) ==
    IF committed THEN pending ELSE tab

\* The rows cursor.executemany wrote into the open transaction when fault
\* struck: all of them, or those before the row at which the statement
\* failed.
written(tuples, fault) ==
    IF fault.at = "executemany" THEN SubSeq(tuples, 1, fault.row - 1)
    ELSE tuples

\* The manager after the statement: a lost connection is closed.
after_fault(w, fault) ==
    IF fault.lost THEN [w EXCEPT !.openConns = @ \ {w.connection}] ELSE w

\* execute_many after ensure_connected left c: cursor() raises
\* AttributeError on None, which "except Error" does not catch, and an Error
\* on a closed connection; executemany or commit raise an Error when fault
\* says so, and the except clause rolls back if the connection is still
\* open; otherwise commit() was reached and True is returned.
execute_many_body(c, t, tab, tuples, fault) ==
    IF c.ret = Raised \/ c.w.connection = 0
    THEN [w |-> c.w, ret |-> Raised, table |-> tab, pending |-> 0]
    ELSE IF ~is_connected(c.w)
    THEN [w |-> c.w, ret |-> False, table |-> tab, pending |-> 0]
    ELSE [w |-> after_fault(c.w, fault),
          ret |-> IF fault.at = "none" THEN True ELSE False,
          table |-> end_transaction(fault.at = "none", tab,
                                    upsert(t, tab, written(tuples, fault))),
          pending |-> IF fault.at = "none" THEN 0
                      ELSE Len(written(tuples, fault))]

\* MySQLManager.execute_many(insert_query, data)
execute_many_rows(w, t, tab, tuples, fault) ==
    execute_many_body(ensure_connected(w), t, tab, tuples, fault)

\* What can go wrong while the batch is written: nothing, an Error of
\* executemany at one of its rows or an Error of commit, the connection
\* being lost with it or not.
Faults(tuples, w) ==
    {f \in [at : {"none", "executemany", "commit"}, row : DOMAIN tuples,
            lost : BOOLEAN] :
        /\ f.at # "executemany" => f.row = 1
        /\ f.lost => f.at # "none" /\ w.connSeq < MaxConns}

TxnInit == StoreStart({"daily_data"})

ExecuteManyRows ==
    /\ df # <<>>
    /\ \E tuples \in {data_tuples(tbl, df, None, None)} :
       \E fault \in Faults(tuples, World) :
       \E r \in {execute_many_rows(World, tbl, table, tuples, fault)} :
        /\ SetWorld(r.w)
        /\ table' = r.table
        /\ hist' = IF r.ret = True
                   THEN [k \in DOMAIN hist |-> last_value(hist, k, tuples)]
                   ELSE hist
        /\ saved' = [op |-> "execute_many", ret |-> r.ret,
                     rows |-> Len(tuples), pending |-> r.pending,
                     effect |-> effect(table, r.table)]
        /\ UNCHANGED <<tbl, df, last, firstConfig, fetchVars, rsiVars,
                       strategyVars>>

TxnNext ==
    \/ Fetch
    \/ ExecuteManyRows
    \/ ServerUp
    \/ ServerDown
SpecTxn == TxnInit /\ [][TxnNext]_vars

\* C26: execute_many is all-or-nothing per batch.  hist holds, per key, the
\* values of the last batch for which True was returned: the stored rows are
\* those rows and no others, so a batch answered True is stored whole, a
\* batch answered False or left by an exception leaves no row, and the rows
\* of earlier batches stay as they were.
C26_AllOrNothing ==
    /\ \A r \in DOMAIN table :
           table[r] = IF hist[KeyOf(r)] = r.val THEN 1 ELSE 0
    /\ (saved.op = "execute_many" /\ saved.ret # True) =>
           saved.effect = "none"

\* A batch of two rows failed at its second row, one row being written in
\* the open transaction, while rows of an earlier batch are stored.
C26_Witness ==
    /\ saved.op = "execute_many"
    /\ saved.ret = False
    /\ saved.rows = 2
    /\ saved.pending = 1
    /\ \E k \in StoredKeys(tbl) : hist[k] # None

\* ---- MySQLManager(config) called by two threads ----

\* The threads constructing a manager.
Threads == {1, 2}

\* The variant of the test that never finds an instance.
instance_is_None_always(w) == TRUE

\* "if cls._instance is None"
instance_is_None(w) == w.instance = 0

\* The body of that if: the object is allocated and assigned to
\* cls._instance, and the config, if given, to cls._config.
create_instance(w, config) ==
    [w EXCEPT !.instance = w.made + 1, !.made = w.made + 1,
              !.clsConfig = IF config # None THEN config ELSE @]

\* No manager exists, and each thread is about to call MySQLManager(config)
\* with a config of its own.  pc: where the thread is; wasNone: whether
\* cls._instance was None when the thread tested it; obj: the object the
\* thread's __new__ returned.
ThreadsInit ==
    /\ MgrInit
    /\ dbUp = TRUE
    /\ StoreIdle
    /\ FetchIdle
    /\ RsiIdle
    /\ \E config \in [Threads -> Configs \cup {None}] :
           call = [op |-> "threads", config |-> config,
                   pc |-> [t \in Threads |-> "test"],
                   wasNone |-> [t \in Threads |-> FALSE],
                   obj |-> [t \in Threads |-> 0]]

\* A step of a thread leaves the rest of the manager alone.
ThreadStep(w, c) ==
    /\ SetWorld(w)
    /\ call' = c
    /\ UNCHANGED <<last, firstConfig, storeVars, fetchVars, rsiVars>>

\* Line 25: the thread tests cls._instance.
NewTest ==
    \E t \in Threads :
        /\ call.pc[t] = "test"
        /\ ThreadStep(World,
               [call EXCEPT !.pc[t] = IF instance_is_None(World)
                                      THEN "create" ELSE "return",
                            !.wasNone[t] = (instance = 0)])

\* Lines 26-29: the thread allocates the object and assigns it.
NewCreate ==
    \E t \in Threads :
        /\ call.pc[t] = "create"
        /\ ThreadStep(create_instance(World, call.config[t]),
                      [call EXCEPT !.pc[t] = "return"])

\* Line 30: return cls._instance, as it is now.
NewReturn ==
    \E t \in Threads :
        /\ call.pc[t] = "return"
        /\ ThreadStep(World, [call EXCEPT !.pc[t] = "init",
                                          !.obj[t] = instance])

\* __init__ on the returned object.
ThreadInit ==
    \E t \in Threads :
        /\ call.pc[t] = "init"
        /\ ThreadStep(init(World, call.config[t]),
                      [call EXCEPT !.pc[t] = "done"])

ThreadsNext ==
    \/ NewTest
    \/ NewCreate
    \/ NewReturn
    \/ ThreadInit
SpecThreads == ThreadsInit /\ [][ThreadsNext]_vars

\* C27: __new__ is not thread-safe.  Nothing orders the test of
\* cls._instance and its assignment between threads, and a second instance
\* is created exactly in the interleavings in which a thread tested
\* cls._instance before the other assigned it: instances are created only
\* by threads that found cls._instance None, and when both threads are
\* past line 26 each of those has created one.
C27_TwoInstancesByRace ==
    call.op = "threads" =>
        /\ made <= Cardinality({t \in Threads : call.wasNone[t]})
        /\ (\A t \in Threads : call.pc[t] \in {"return", "init", "done"}) =>
               made = Cardinality({t \in Threads : call.wasNone[t]})

\* Both threads tested cls._instance before either assigned it: two
\* distinct instances were created, and the threads hold different objects.
C27_Witness ==
    /\ call.op = "threads"
    /\ \A t \in Threads : call.pc[t] = "done"
    /\ made = 2
    /\ call.obj[1] # call.obj[2]
    /\ call.obj[1] # 0
    /\ call.obj[2] # 0

====
